---------------------------- MODULE Spec2Model ----------------------------
(***************************************************************************)
(* A model of the request/response layer of foundry-fn-go (package fdk):   *)
(* Response.StatusCode, the Mux router, and the HTTP transport's           *)
(* per-request pipeline (dispatchReq, toRequest, recoverer, writeFile,     *)
(* writeResponse).                                                         *)
(***************************************************************************)
EXTENDS Integers, Sequences, FiniteSets, TLC

VARIABLES
    \* ---- Response.StatusCode under call (sdk.go)
    statusResp,     \* the Response StatusCode() is called on
    statusOut,      \* <<>> before the call, <<code>> after it
    \* ---- Mux (request.go)
    routes,         \* Mux.routes: the set of registered routes
    meth2Routes,    \* Mux.meth2Routes: method -> set of routes
    handlers,       \* Mux.handlers: routeKey -> Handler (NilHandler: no entry)
    bound,          \* history: the <<method, route, handler>> of every
                    \* registerRoute call that returned normally
    muxCall,        \* the last call on the Mux and its outcome
    \* ---- HTTP transport, one request at a time (part_001, part_004)
    pc,             \* where dispatchReq stands for the current request
    httpReq,        \* the inbound *http.Request
    decoded,        \* what toRequest returned: [err, r]
    userOut,        \* what ran inside runFn: which part panicked, or the
                    \* Response the user's handler returned
    userCalls,      \* how often the user's Handle was invoked for the request
    ret,            \* what handler.Handle(ctx, r) returned to dispatchReq
    resp,           \* dispatchReq's local resp
    fileOut,        \* what writeFile returned and did: [called, err, sha,
                    \* size, passes, rClosed, fClosed]
    disk,           \* the files under the working directory: path -> bytes
    wire,           \* <<>> or <<[status, envelope]>>: what went to w.Write
    sinkErr,        \* whether that w.Write failed
    trace,          \* history: the steps taken for the current request
    served,         \* requests accepted so far
    recovered,      \* panics recovered so far
    cfgLoads,       \* history: what each call of readCfg came to
    \* ---- compressorGzip, one instance (file.go)
    built,          \* whether newCompressorGzip has run
    source,         \* rc: the chunks the source still yields
    rcClosed,       \* rc: whether it is closed
    started,        \* c.started
    gwClosed,       \* c.gwClosed
    pwClosed,       \* c.pwClosed
    closeErr,       \* c.closeErr ("" is nil)
    copyErr,        \* c.copyErr ("" is nil)
    gw,             \* the gzip.Writer: [closed, err]
    pipe,           \* the io.Pipe: [owner, werr, rclosed]
    task,           \* the goroutines running compressInput: [n, at, err]
    readers,        \* where each caller of Read stands
    reads,          \* calls of Read made so far
    closer,         \* the caller of Close: [at, synced, errs]
    closeRet,       \* what Close returned, and what held at that moment
    \* ---- the handler adapters (handler_fns.go)
    callerReq,      \* the Request a caller holds, with the state of its Body
    handled,        \* history: the calls of adapter-built handlers on it
    \* ---- the headers of toRequest (part_001)
    envHeaders,     \* the header mapping of the inbound envelope
    reqHeaders,     \* <<>>, or <<the Headers of the Request toRequest built>>
    \* ---- decoding a multipart submission (part_001, complex_payload.go)
    mpPc,           \* where dispatchReq stands for the multipart request
    mpForm,         \* the submission: [meta, parts, values]
    mpOut,          \* what toRequest returned for it, and how the write went
    opened,         \* the streams opened for the request
    shut,           \* the streams closed so far
    \* ---- decoding a JSON envelope (part_001)
    jsonPc,         \* whether the envelope is being sent or was decoded
    jsonBody,       \* the bytes of req.Body
    jsonOut,        \* what fromJSONReq returned: [kind, payload]
    \* ---- CompressGzip (file.go)
    czIn,           \* the File handed to CompressGzip
    czFile,         \* the File after the calls made so far
    czOnce,         \* the File after the first call
    czTimes,        \* calls of CompressGzip made on it
    \* ---- the HTTP transport loop (part_001 28-58)
    srv,            \* the http.Server: [inShutdown, listener]
    ctxDone,        \* whether the ctx handed to Run is cancelled
    conns,          \* each request: none, in flight or done
    runReturned,    \* whether runHTTP has returned
    shutdownErr,    \* what s.Shutdown returned, once called
    \* ---- requests served at the same time (part_001, runner_http.go)
    reqs,           \* each request being served: [at, via, TraceID, ctx, seen]
    muxCtx,         \* the ctx variable the closure of newHTTPRunMux captured
    \* ---- compressorGzip, access by access (file.go)
    mu,             \* c.mu: free, or the goroutine that holds it
    latch,          \* c.started
    thr,            \* the statement each goroutine stands at
    accesses        \* history: the accesses made to the fields of c

statusVars == <<statusResp, statusOut>>
muxVars == <<routes, meth2Routes, handlers, bound, muxCall>>
runVars == <<pc, httpReq, decoded, userOut, userCalls, ret, resp, fileOut, disk,
             wire, sinkErr, trace, served, recovered, cfgLoads>>
gzVars == <<built, source, rcClosed, started, gwClosed, pwClosed, closeErr,
            copyErr, gw, pipe, task, readers, reads, closer, closeRet>>
adapterVars == <<callerReq, handled>>
headerVars == <<envHeaders, reqHeaders>>
multipartVars == <<mpPc, mpForm, mpOut, opened, shut>>
jsonVars == <<jsonPc, jsonBody, jsonOut>>
compressVars == <<czIn, czFile, czOnce, czTimes>>
serveVars == <<srv, ctxDone, conns, runReturned, shutdownErr>>
traceVars == <<reqs, muxCtx>>
guardVars == <<mu, latch, thr, accesses>>
notStatusVars == <<muxVars, runVars, gzVars, adapterVars, headerVars,
                   multipartVars, jsonVars, compressVars, serveVars,
                   traceVars, guardVars>>
notMuxVars == <<statusVars, runVars, gzVars, adapterVars, headerVars,
                multipartVars, jsonVars, compressVars, serveVars, traceVars,
                guardVars>>
notRunVars == <<statusVars, muxVars, gzVars, adapterVars, headerVars,
                multipartVars, jsonVars, compressVars, serveVars, traceVars,
                guardVars>>
notGzVars == <<statusVars, muxVars, runVars, adapterVars, headerVars,
               multipartVars, jsonVars, compressVars, serveVars, traceVars,
               guardVars>>
notAdapterVars == <<statusVars, muxVars, runVars, gzVars, headerVars,
                    multipartVars, jsonVars, compressVars, serveVars,
                    traceVars, guardVars>>
notHeaderVars == <<statusVars, muxVars, runVars, gzVars, adapterVars,
                   multipartVars, jsonVars, compressVars, serveVars,
                   traceVars, guardVars>>
notMultipartVars == <<statusVars, muxVars, runVars, gzVars, adapterVars,
                      headerVars, jsonVars, compressVars, serveVars,
                      traceVars, guardVars>>
notJSONVars == <<statusVars, muxVars, runVars, gzVars, adapterVars,
                 headerVars, multipartVars, compressVars, serveVars,
                 traceVars, guardVars>>
notCompressVars == <<statusVars, muxVars, runVars, gzVars, adapterVars,
                     headerVars, multipartVars, jsonVars, serveVars,
                     traceVars, guardVars>>
notServeVars == <<statusVars, muxVars, runVars, gzVars, adapterVars,
                  headerVars, multipartVars, jsonVars, compressVars,
                  traceVars, guardVars>>
notTraceVars == <<statusVars, muxVars, runVars, gzVars, adapterVars,
                  headerVars, multipartVars, jsonVars, compressVars,
                  serveVars, guardVars>>
notGuardVars == <<statusVars, muxVars, runVars, gzVars, adapterVars,
                  headerVars, multipartVars, jsonVars, compressVars,
                  serveVars, traceVars>>
vars == <<statusVars, muxVars, runVars, gzVars, adapterVars, headerVars,
          multipartVars, jsonVars, compressVars, serveVars, traceVars,
          guardVars>>

-----------------------------------------------------------------------------
(* net/http status codes used by the package *)
StatusOK == 200
StatusBadRequest == 400
StatusNotFound == 404
StatusMethodNotAllowed == 405
StatusInternalServerError == 500
StatusServiceUnavailable == 503

(* Bounds of the model *)
MaxErrs == 3
MaxRegs == 3
MaxRequests == 2

-----------------------------------------------------------------------------
(* APIError{Code, Message} *)
APIError(code, message) == [Code |-> code, Message |-> message]

(* Response{Body, Code, Errors}; Body is NoBody for a nil json.Marshaler.    *)
(* The Header field is carried along untouched by all code modelled here.  *)
NoBody == [kind |-> "nil"]
Response(body, code, errors) == [Body |-> body, Code |-> code, Errors |-> errors]

(* The loop of StatusCode: code keeps the largest e.Code above it. *)
RECURSIVE MaxErrCode(_, _, _)
MaxErrCode(errors, i, code) ==
    IF i > Len(errors) THEN code
    ELSE MaxErrCode(errors, i + 1,
                    IF errors[i].Code > code THEN errors[i].Code ELSE code)

(* A variant in which the last error's code wins, whatever its size. *)
StatusCodeLastWins(r) ==
    LET code == IF r.Code = 0 /\ Len(r.Errors) > 0
                THEN r.Errors[Len(r.Errors)].Code ELSE r.Code
    IN  IF code = 0 THEN StatusOK ELSE code

(* func (r Response) StatusCode() int *)
StatusCode(r) ==
    LET code == IF r.Code = 0 /\ Len(r.Errors) > 0
                THEN MaxErrCode(r.Errors, 1, r.Code) ELSE r.Code
    IN  IF code = 0 THEN StatusOK ELSE code

(* func ErrResp(errs ...APIError) Response *)
ErrResp(errs) ==
    LET r == Response(NoBody, 0, errs)
    IN  [r EXCEPT !.Code = StatusCode(r)]

-----------------------------------------------------------------------------
(* Inputs of the StatusCode specification *)
SeqsUpTo(S, n) == UNION {[1..k -> S] : k \in 0..n}

StatusErrors ==
    { APIError(-1, "negative"), APIError(0, "zero"),
      APIError(StatusBadRequest, "bad request"),
      APIError(StatusInternalServerError, "internal"),
      APIError(501, "not implemented") }

StatusCodes == {0, -1, 201}

InitStatus ==
    /\ statusResp = Response(NoBody, 0, <<>>)
    /\ statusOut = <<>>

(* A caller appends an error: resp.Errors = append(resp.Errors, e) *)
AppendError ==
    /\ Len(statusResp.Errors) < MaxErrs
    /\ \E e \in StatusErrors :
         statusResp' = [statusResp EXCEPT !.Errors = Append(@, e)]
    /\ statusOut' = <<>>
    /\ UNCHANGED notStatusVars

(* A caller sets the explicit code: resp.Code = c *)
SetCode ==
    /\ \E c \in StatusCodes : statusResp' = [statusResp EXCEPT !.Code = c]
    /\ statusOut' = <<>>
    /\ UNCHANGED notStatusVars

(* A caller starts over with the zero Response *)
ResetResponse ==
    /\ statusResp' = Response(NoBody, 0, <<>>)
    /\ statusOut' = <<>>
    /\ UNCHANGED notStatusVars

(* A caller calls statusResp.StatusCode(). *)
CallStatusCode ==
    /\ statusOut = <<>>
    /\ statusOut' = <<StatusCode(statusResp)>>
    /\ UNCHANGED <<statusResp, notStatusVars>>

NextStatus == AppendError \/ SetCode \/ ResetResponse \/ CallStatusCode

-----------------------------------------------------------------------------
(* Mux: routes, meth2Routes and handlers of request.go.  A missing map      *)
(* entry reads as the zero value: FALSE for the bool maps (here: not in the *)
(* set), the nil Handler for handlers.                                      *)
MethodDelete == "DELETE"
MethodGet == "GET"
MethodPost == "POST"
MethodPut == "PUT"
Methods == {MethodDelete, MethodGet, MethodPost, MethodPut}
ReqMethods == Methods \cup {"PATCH"}
Routes == {"/", "/a"}
ReqURLs == Routes \cup {"", "/a/b"}
NilHandler == "nil"
Handlers == {"h1", "h2"}
RouteKeys == [method : ReqMethods, route : ReqURLs \cup {"/"}]
routeKey(method, route) == [method |-> method, route |-> route]

NoCall == [op |-> "none"]
NoResponse == Response(NoBody, 0, <<>>)

(* What a user handler may return: a body of its own or an error of its own *)
HandlerResponses(h) ==
    { Response([kind |-> "json", v |-> h], 0, <<>>),
      Response(NoBody, 0, <<APIError(StatusBadRequest, h)>>) }

(* NewMux() *)
InitMux ==
    /\ routes = {}
    /\ meth2Routes = [m \in ReqMethods |-> {}]
    /\ handlers = [rk \in RouteKeys |-> NilHandler]
    /\ bound = {}
    /\ muxCall = NoCall

(* The panic registerRoute raises for its arguments, "" when it raises none *)
RegisterPanicNoDupCheck(method, route, h) ==
    IF route = "" THEN "route must be provided"
    ELSE IF h = NilHandler THEN "handler must not be nil"
    ELSE ""

RegisterPanic(method, route, h) ==
    IF route = "" THEN "route must be provided"
    ELSE IF h = NilHandler THEN "handler must not be nil"
    ELSE IF handlers[routeKey(method, route)] # NilHandler
         THEN "multiple handlers added for: " \o method \o " " \o route
    ELSE ""

(* registerRoute without m.routes[route] = true *)
registerRouteForgettingRoutes(method, route, h) ==
    LET panic == RegisterPanic(method, route, h) IN
    /\ muxCall' = [op |-> "registerRoute", method |-> method, route |-> route,
                   h |-> h, panic |-> panic]
    /\ \/ /\ panic # ""
          /\ UNCHANGED <<routes, meth2Routes, handlers, bound>>
       \/ /\ panic = ""
          /\ UNCHANGED routes
          /\ meth2Routes' = [meth2Routes EXCEPT ![method] = @ \cup {route}]
          /\ handlers' = [handlers EXCEPT ![routeKey(method, route)] = h]
          /\ bound' = bound \cup {<<method, route, h>>}

(* func (m *Mux) registerRoute(method, route string, h Handler) *)
registerRoute(method, route, h) ==
    LET panic == RegisterPanic(method, route, h) IN
    /\ muxCall' = [op |-> "registerRoute", method |-> method, route |-> route,
                   h |-> h, panic |-> panic]
    /\ \/ /\ panic # ""
          /\ UNCHANGED <<routes, meth2Routes, handlers, bound>>
       \/ /\ panic = ""
          /\ routes' = routes \cup {route}
          /\ meth2Routes' = [meth2Routes EXCEPT ![method] = @ \cup {route}]
          /\ handlers' = [handlers EXCEPT ![routeKey(method, route)] = h]
          /\ bound' = bound \cup {<<method, route, h>>}

(* Mux.Delete, Mux.Get, Mux.Post, Mux.Put *)
Register ==
    /\ Cardinality(bound) < MaxRegs
    /\ \E method \in Methods, route \in Routes \cup {""},
          h \in Handlers \cup {NilHandler} :
            registerRoute(method, route, h)
    /\ UNCHANGED notMuxVars

(* The route Handle looks up: an empty URL is the root *)
MuxRoute(r) == IF r.URL = "" THEN "/" ELSE r.URL

NotFoundResp == Response(NoBody, 0, <<APIError(StatusNotFound, "route not found")>>)
NotAllowedResp ==
    Response(NoBody, 0, <<APIError(StatusMethodNotAllowed, "method not allowed")>>)

(* Variants of the decision of Handle, each with one check changed *)
MuxDecideNoRouteCheck(r) ==
    LET rk == routeKey(r.Method, MuxRoute(r)) IN
    IF rk.route \notin meth2Routes[rk.method]
    THEN [invoke |-> FALSE, resp |-> NotAllowedResp]
    ELSE [invoke |-> TRUE, h |-> handlers[rk]]

MuxDecideNoMethodCheck(r) ==
    LET rk == routeKey(r.Method, MuxRoute(r)) IN
    IF rk.route \notin routes
    THEN [invoke |-> FALSE, resp |-> NotFoundResp]
    ELSE [invoke |-> TRUE, h |-> handlers[rk]]

MuxDecideAnyMethod(r) ==
    LET rk == routeKey(r.Method, MuxRoute(r)) IN
    IF rk.route \notin routes
    THEN [invoke |-> FALSE, resp |-> NotFoundResp]
    ELSE IF rk.route \notin meth2Routes[rk.method]
    THEN [invoke |-> FALSE, resp |-> NotAllowedResp]
    ELSE [invoke |-> TRUE,
          h |-> handlers[CHOOSE k \in RouteKeys :
                            k.route = rk.route /\ handlers[k] # NilHandler]]

(* The decision of Handle: the two checks, then the handler of the key *)
MuxDecide(r) ==
    LET rk == routeKey(r.Method, MuxRoute(r)) IN
    IF rk.route \notin routes
    THEN [invoke |-> FALSE, resp |-> NotFoundResp]
    ELSE IF rk.route \notin meth2Routes[rk.method]
    THEN [invoke |-> FALSE, resp |-> NotAllowedResp]
    ELSE [invoke |-> TRUE, h |-> handlers[rk]]

(* func (m *Mux) Handle(ctx context.Context, r Request) Response:           *)
(* invoked lists the handlers called, out what each returned; calling the  *)
(* nil Handler is a nil-dereference panic.                                 *)
MuxHandle(r) ==
    LET d == MuxDecide(r) IN
    \/ /\ ~d.invoke
       /\ muxCall' = [op |-> "Handle", r |-> r, invoked |-> <<>>, out |-> <<>>,
                      panic |-> "", resp |-> d.resp]
    \/ /\ d.invoke /\ d.h = NilHandler
       /\ muxCall' = [op |-> "Handle", r |-> r, invoked |-> <<>>, out |-> <<>>,
                      panic |-> "nil pointer dereference", resp |-> NoResponse]
    \/ /\ d.invoke /\ d.h # NilHandler
       /\ \E out \in HandlerResponses(d.h) :
            muxCall' = [op |-> "Handle", r |-> r, invoked |-> <<d.h>>,
                        out |-> <<out>>, panic |-> "", resp |-> out]

Handle ==
    /\ \E method \in ReqMethods, url \in ReqURLs :
         MuxHandle([Method |-> method, URL |-> url])
    /\ UNCHANGED <<routes, meth2Routes, handlers, bound, notMuxVars>>

NextMux == Register \/ Handle

-----------------------------------------------------------------------------
(* File (file.go) and NormalizeFile.  A filename is the sequence of its     *)
(* dot-separated parts (<<>> is the empty name), an encoding the sequence   *)
(* of its ", "-separated tokens (<<>> is the empty encoding).               *)
contentTypeOctetStream == "application/octet-stream"
File(ct, enc, name, contents) ==
    [kind |-> "file", ContentType |-> ct, Encoding |-> enc, Filename |-> name,
     Contents |-> contents]
IsFile(body) == body.kind = "file"

(* strings.Split(filepath.Base(filename), "."): Base("") is "." *)
BaseParts(filename) == IF filename = <<>> THEN <<"", "">> ELSE filename

(* mime.TypeByExtension for the extensions used here *)
TypeByExtension(ext) ==
    CASE ext = "json" -> "application/json"
      [] ext = "xml" -> "application/xml"
      [] ext = "yaml" -> "text/yaml"
      [] OTHER -> ""

RECURSIVE FirstType(_, _)
FirstType(parts, i) ==
    IF i > Len(parts) THEN contentTypeOctetStream
    ELSE IF TypeByExtension(parts[i]) # "" THEN TypeByExtension(parts[i])
    ELSE FirstType(parts, i + 1)

normalizeContentType(filename) ==
    LET parts == BaseParts(filename) IN
    IF Len(parts) < 2 THEN contentTypeOctetStream ELSE FirstType(parts, 2)

EncodingOfExt(part) ==
    CASE part = "br" -> "brotli"
      [] part = "gz" -> "gzip"
      [] part = "zst" -> "zstd"
      [] OTHER -> ""

RECURSIVE EncodingsFrom(_, _)
EncodingsFrom(parts, i) ==
    IF i > Len(parts) THEN <<>>
    ELSE IF EncodingOfExt(parts[i]) # ""
         THEN <<EncodingOfExt(parts[i])>> \o EncodingsFrom(parts, i + 1)
    ELSE EncodingsFrom(parts, i + 1)

normalizeEncoding(filename) ==
    LET parts == BaseParts(filename) IN
    IF Len(parts) = 1 THEN <<>> ELSE EncodingsFrom(parts, 2)

compressionToExt(enc) ==
    CASE enc = "brotli" -> "br"
      [] enc = "gzip" -> "gz"
      [] enc = "zstd" -> "zst"
      [] OTHER -> ""

RECURSIVE ExtsFrom(_, _)
ExtsFrom(encoding, i) ==
    IF i > Len(encoding) THEN <<>>
    ELSE IF compressionToExt(encoding[i]) # ""
         THEN <<compressionToExt(encoding[i])>> \o ExtsFrom(encoding, i + 1)
    ELSE ExtsFrom(encoding, i + 1)

(* mime.ExtensionsByType(contentType)[0] for the types used here *)
ExtensionOfType(ct) ==
    CASE ct = "application/json" -> <<"json">>
      [] ct = "application/xml" -> <<"xml">>
      [] OTHER -> <<>>

normalizeFilename(contentType, encoding) ==
    <<"upload_now">>
    \o (IF contentType # contentTypeOctetStream
        THEN ExtensionOfType(contentType) ELSE <<>>)
    \o (IF ExtsFrom(encoding, 1) # <<>> THEN ExtsFrom(encoding, 1) ELSE encoding)

(* func NormalizeFile(f File) File *)
NormalizeFile(f) ==
    LET f1 == IF f.ContentType = ""
              THEN [f EXCEPT !.ContentType = normalizeContentType(f.Filename)]
              ELSE f
        f2 == IF f1.Encoding = <<>>
              THEN [f1 EXCEPT !.Encoding = normalizeEncoding(f1.Filename)]
              ELSE f1
    IN  IF f2.Filename = <<>>
        THEN [f2 EXCEPT !.Filename = normalizeFilename(f2.ContentType, f2.Encoding)]
        ELSE f2

-----------------------------------------------------------------------------
(* The inbound *http.Request, by what toRequest looks at *)
JSONReq(read, json) == [ct |-> "application/json", read |-> read, json |-> json]
MultipartReq(meta, files) ==
    [ct |-> "multipart/form-data", meta |-> meta, files |-> files, values |-> {}]

InboundRequests ==
    { JSONReq("ok", "valid"), JSONReq("ok", "invalid"), JSONReq("error", "valid"),
      MultipartReq("valid", {"body"}), MultipartReq("valid", {}),
      MultipartReq("missing", {"body"}), MultipartReq("invalid", {"body"}) }

NoRequest == [Body |-> "none"]
Request(body) == [Body |-> body]

(* func fromJSONReq(req *http.Request) (reqMeta, io.ReadCloser, error) *)
fromJSONReq(req) ==
    IF req.read = "error"
    THEN [err |-> "failed to read request body", r |-> NoRequest]
    ELSE IF req.json = "invalid"
    THEN [err |-> "failed to unmarshal request body", r |-> NoRequest]
    ELSE [err |-> "", r |-> Request("json")]

(* func isComplexMultipartReq(m *multipart.Form) bool: m.Value holds meta *)
isComplexMultipartReq(req) ==
    \/ Cardinality(req.files) > 1
    \/ (Cardinality(req.files) >= 1 /\ Cardinality(req.values) + 1 > 1)

(* func fromMultipartReq(req *http.Request) (reqMeta, io.ReadCloser, error) *)
fromMultipartReq(req) ==
    IF req.meta = "missing"
    THEN [err |-> "no meta field provided in multipart form submission",
          r |-> NoRequest]
    ELSE IF req.meta = "invalid"
    THEN [err |-> "failed to json unmarshal meta from multipart field",
          r |-> NoRequest]
    ELSE IF isComplexMultipartReq(req)
    THEN [err |-> "", r |-> Request("complex")]
    ELSE IF "body" \notin req.files
    THEN [err |-> "failed to read multipart body form file", r |-> NoRequest]
    ELSE [err |-> "", r |-> Request("file")]

(* func toRequest(req *http.Request) (Request, func() error, error) *)
toRequest(req) ==
    LET from == IF req.ct = "multipart/form-data"
                THEN fromMultipartReq(req) ELSE fromJSONReq(req)
    IN  IF from.err # ""
        THEN [from EXCEPT !.err = "failed to prepare request: " \o @]
        ELSE from

-----------------------------------------------------------------------------
(* What the user's handler graph may do *)
JSONBody == [kind |-> "json", ok |-> TRUE]
BadJSONBody == [kind |-> "json", ok |-> FALSE]   \* its MarshalJSON fails
UserFiles ==
    { File("", <<>>, <<"test", "json", "gz">>, <<1, 2>>),
      File("", <<>>, <<"test", "json", "gz">>, <<3>>),
      File("", <<>>, <<>>, <<3>>) }
UserBodies == {NoBody, JSONBody, BadJSONBody} \cup UserFiles
UserErrors ==
    { <<>>, <<APIError(StatusBadRequest, "bad input")>>,
      <<APIError(501, "not implemented"), APIError(StatusBadRequest, "bad input")>> }
UserResponses ==
    { Response(b, c, e) : b \in UserBodies, c \in {0, 201}, e \in UserErrors }
PanicSites == {"readCfg", "newHandlerFn", "Handle"}
NotRun == [panic |-> "", resp |-> NoResponse]

(* func readCfg[T Cfg](ctx) (T, *cfgErr): the apiErr of a failed load *)
CfgErrors ==
    { APIError(StatusInternalServerError, "failed to read config source"),
      APIError(StatusBadRequest, "failed to unmarshal config into config type"),
      APIError(StatusBadRequest, "config is invalid") }

(* The Response the deferred recover() of recoverer leaves in resp *)
PanicResp ==
    ErrResp(<<APIError(StatusServiceUnavailable, "encountered unexpected error")>>)

(* A recoverer that does not recover: the panic leaves the handler *)
recovererNoRecover(out) ==
    IF out.panic # "" THEN [escaped |-> TRUE, resp |-> NoResponse]
    ELSE [escaped |-> FALSE, resp |-> out.resp]

(* func recoverer(logger) func(Handler) Handler, applied to what the wrapped *)
(* handler did                                                              *)
recoverer(out) ==
    IF out.panic # "" THEN [escaped |-> FALSE, resp |-> PanicResp]
    ELSE [escaped |-> FALSE, resp |-> out.resp]

-----------------------------------------------------------------------------
(* writeFile and writeResponse *)
sha256Hash(data) == <<"sha256", data>>
IOOutcomes == {"ok", "open", "copy", "rclose", "fclose"}
NoFileOut ==
    [called |-> FALSE, err |-> "", sha |-> <<>>, size |-> 0, passes |-> 0,
     rClosed |-> FALSE, fClosed |-> TRUE, disk |-> <<>>]

(* A path of the file system: <<>> when no file is there, else <<bytes>> *)
NoFile == <<>>
DiskPaths == {NormalizeFile(f).Filename : f \in UserFiles}

(* os.OpenFile(filename, os.O_RDWR|os.O_CREATE, 0600) and the writes of     *)
(* io.Copy: the file is created when missing and is not truncated; the     *)
(* bytes land at offset 0 over what the file held.                         *)
WrittenOver(old, data) ==
    IF old = NoFile \/ Len(old[1]) <= Len(data) THEN <<data>>
    ELSE <<data \o SubSeq(old[1], Len(data) + 1, Len(old[1]))>>

(* func writeFile(logger, r io.ReadCloser, filename string) (string, int, error) *)
(* contents: the bytes r yields; old: what the path holds; io: which call   *)
(* fails, if any; k: the bytes copied before a failing io.Copy gave up.     *)
(* The deferred f.Close() and r.Close() are registered after the open      *)
(* succeeded.                                                              *)
writeFile(contents, old, io, k) ==
    CASE io = "open" ->
           [called |-> TRUE, err |-> "failed to open file", sha |-> <<>>,
            size |-> 0, passes |-> 0, rClosed |-> FALSE, fClosed |-> TRUE,
            disk |-> old]
      [] io = "copy" ->
           [called |-> TRUE, err |-> "failed to write contents to file",
            sha |-> <<>>, size |-> 0, passes |-> 1, rClosed |-> TRUE,
            fClosed |-> TRUE, disk |-> WrittenOver(old, SubSeq(contents, 1, k))]
      [] io = "fclose" ->
           [called |-> TRUE, err |-> "failed to close file", sha |-> <<>>,
            size |-> 0, passes |-> 1, rClosed |-> TRUE, fClosed |-> TRUE,
            disk |-> WrittenOver(old, contents)]
      [] OTHER ->
           [called |-> TRUE, err |-> "", sha |-> sha256Hash(contents),
            size |-> Len(contents), passes |-> 1, rClosed |-> TRUE,
            fClosed |-> TRUE, disk |-> WrittenOver(old, contents)]

(* json.Marshal of a Response body: File.MarshalJSON gives the metadata,    *)
(* a nil body is omitted.                                                   *)
MarshalBody(body) ==
    CASE body.kind = "nil" -> [ok |-> TRUE, json |-> <<>>]
      [] body.kind = "file" ->
           [ok |-> TRUE,
            json |-> <<[content_type |-> body.ContentType,
                        encoding |-> body.Encoding,
                        filename |-> body.Filename]>>]
      [] body.kind = "meta" -> [ok |-> TRUE, json |-> <<body.v>>]
      [] OTHER -> [ok |-> body.ok, json |-> IF body.ok THEN <<"{}">> ELSE <<>>]

(* The bytes writeResponse hands to w.Write: <<>> when json.Marshal failed  *)
Marshalled(r) ==
    LET b == MarshalBody(r.Body) IN
    IF ~b.ok THEN <<>>
    ELSE <<[status |-> StatusCode(r),
            envelope |-> [body |-> b.json, code |-> StatusCode(r),
                          errors |-> r.Errors]]>>

(* The Response a client decodes from what was written, as TestRun does:   *)
(* json.Unmarshal of the bytes into {body, code, errors, headers}; no bytes *)
(* do not unmarshal.                                                        *)
DecodeEnvelope(written) ==
    IF written = <<>>
    THEN ErrResp(<<APIError(StatusInternalServerError,
                            "unable to unmarshal response body: unexpected end of JSON input")>>)
    ELSE Response(written[1].envelope.body, written[1].envelope.code,
                  written[1].envelope.errors)

(* The resp of the decode-failure branch of dispatchReq *)
DecodeFailRespEchoingCause(err) ==
    ErrResp(<<APIError(StatusInternalServerError, err)>>)

DecodeFailResp(err) ==
    ErrResp(<<APIError(StatusInternalServerError,
                       "unable to process incoming request")>>)

(* The step that follows toRequest *)
AfterDecodeAlwaysDispatch(d) == "dispatch"

AfterDecode(d) == IF d.err # "" THEN "encode" ELSE "dispatch"

(* resp.Errors after writeFile failed with err *)
FileFailErrorsOnlyFailure(errors, err) ==
    <<APIError(StatusInternalServerError, err)>>

FileFailErrors(errors, err) ==
    Append(errors, APIError(StatusInternalServerError, err))

-----------------------------------------------------------------------------
(* dispatchReq, step by step *)
InitRun ==
    /\ pc = "idle"
    /\ httpReq = JSONReq("ok", "valid")
    /\ decoded = [err |-> "", r |-> NoRequest]
    /\ userOut = NotRun
    /\ userCalls = 0
    /\ ret = NoResponse
    /\ resp = NoResponse
    /\ fileOut = NoFileOut
    /\ disk = [p \in DiskPaths |-> NoFile]
    /\ wire = <<>>
    /\ sinkErr = FALSE
    /\ trace = <<>>
    /\ served = 0
    /\ recovered = 0
    /\ cfgLoads = <<>>

(* The server hands a request to the http.HandlerFunc of dispatchReq *)
Accept ==
    /\ pc \in {"idle", "done", "aborted"}
    /\ served < MaxRequests
    /\ httpReq' \in InboundRequests
    /\ pc' = "decode"
    /\ decoded' = [err |-> "", r |-> NoRequest]
    /\ userOut' = NotRun
    /\ userCalls' = 0
    /\ ret' = NoResponse
    /\ resp' = NoResponse
    /\ fileOut' = NoFileOut
    /\ wire' = <<>>
    /\ sinkErr' = FALSE
    /\ trace' = <<>>
    /\ served' = served + 1
    /\ UNCHANGED <<disk, recovered, cfgLoads, notRunVars>>

(* r, closeFn, err := toRequest(req) *)
Decode ==
    /\ pc = "decode"
    /\ decoded' = toRequest(httpReq)
    /\ resp' = IF decoded'.err # "" THEN DecodeFailResp(decoded'.err) ELSE resp
    /\ pc' = AfterDecode(decoded')
    /\ trace' = Append(trace, "decode")
    /\ UNCHANGED <<httpReq, userOut, userCalls, ret, fileOut, disk, wire,
                   sinkErr, served, recovered, cfgLoads, notRunVars>>

(* What runFn of Run does when a failed load of the config does not keep
   it from the user's handler *)
RunFnOutcomesCallingHandler ==
    { [panic |-> "", resp |-> ErrResp(<<e>>), calls |-> 1] : e \in CfgErrors }
    \cup { [panic |-> o.panic, resp |-> NoResponse,
            calls |-> IF o.panic = "Handle" THEN 1 ELSE 0] :
              o \in [panic : PanicSites] }
    \cup { [panic |-> "", resp |-> r, calls |-> 1] : r \in UserResponses }

(* What runFn of Run does: readCfg, newHandlerFn, h.Handle *)
RunFnOutcomes ==
    { [panic |-> "", resp |-> ErrResp(<<e>>), calls |-> 0] : e \in CfgErrors }
    \cup { [panic |-> o.panic, resp |-> NoResponse,
            calls |-> IF o.panic = "Handle" THEN 1 ELSE 0] :
              o \in [panic : PanicSites] }
    \cup { [panic |-> "", resp |-> r, calls |-> 1] : r \in UserResponses }

(* cfg, loadErr := readCfg[T](ctx) within one run of runFn: the apiErr of
   loadErr (code 0 when it is nil), and whether newHandlerFn was called *)
readCfgOf(o) ==
    LET failed == o.panic = "" /\ \E e \in CfgErrors : o.resp = ErrResp(<<e>>)
    IN [panic |-> o.panic = "readCfg",
        apiErr |-> IF failed THEN o.resp.Errors[1] ELSE APIError(0, ""),
        newHandlerFn |-> ~failed /\ o.panic # "readCfg"]

(* resp := handler.Handle(ctx, r), handler being recoverer(logger)(runFn) *)
Dispatch ==
    /\ pc = "dispatch"
    /\ \E o \in RunFnOutcomes :
         LET got == recoverer(o) IN
         /\ userOut' = [panic |-> o.panic, resp |-> o.resp]
         /\ userCalls' = userCalls + o.calls
         /\ recovered' = IF o.panic # "" /\ ~got.escaped
                         THEN recovered + 1 ELSE recovered
         /\ ret' = got.resp
         /\ resp' = got.resp
         /\ pc' = IF got.escaped THEN "aborted"
                  ELSE IF IsFile(got.resp.Body) THEN "materialise"
                  ELSE "encode"
         /\ cfgLoads' = Append(cfgLoads, readCfgOf(o))
    /\ trace' = Append(trace, "dispatch")
    /\ UNCHANGED <<httpReq, decoded, fileOut, disk, wire, sinkErr, served,
                   notRunVars>>

(* The File branch of dispatchReq: NormalizeFile, writeFile, the new body *)
Materialise ==
    /\ pc = "materialise"
    /\ \E io \in IOOutcomes :
       \E k \in IF io = "copy" THEN 0..Len(resp.Body.Contents) ELSE {0} :
         LET f == NormalizeFile(resp.Body)
             out == writeFile(f.Contents, disk[f.Filename], io, k)
         IN  /\ fileOut' = out
             /\ disk' = [disk EXCEPT ![f.Filename] = out.disk]
             /\ resp' =
                  IF out.err # ""
                  THEN [resp EXCEPT !.Errors = FileFailErrors(@, out.err)]
                  ELSE [resp EXCEPT !.Body =
                          [kind |-> "meta",
                           v |-> [content_type |-> f.ContentType,
                                  encoding |-> f.Encoding,
                                  filename |-> f.Filename,
                                  sha256_checksum |-> out.sha,
                                  size |-> out.size]]]
    /\ pc' = "encode"
    /\ trace' = Append(trace, "materialise")
    /\ UNCHANGED <<httpReq, decoded, userOut, userCalls, ret, wire, sinkErr,
                   served, recovered, cfgLoads, notRunVars>>

(* writeResponse(logger, w, resp), then the deferred drain and closes *)
Encode ==
    /\ pc = "encode"
    /\ wire' = Marshalled(resp)
    /\ sinkErr' \in IF wire' = <<>> THEN {FALSE} ELSE {FALSE, TRUE}
    /\ pc' = "done"
    /\ trace' = Append(trace, "encode")
    /\ UNCHANGED <<httpReq, decoded, userOut, userCalls, ret, resp, fileOut,
                   disk, served, recovered, cfgLoads, notRunVars>>

NextRun == Accept \/ Decode \/ Dispatch \/ Materialise \/ Encode

-----------------------------------------------------------------------------
(* compressorGzip of file.go: the goroutine of compressInput, the callers   *)
(* of Read and the caller of Close, interleaved.  Errors are strings, "" is *)
(* nil.                                                                     *)
NReaders == 2
MaxChunks == 2
MaxReads == 3

ErrClosedPipe == "io: read/write on closed pipe"
ErrWriterClosed == "flate: closed writer"
ErrSource == "source: read failed"
ErrSourceClose == "source: close failed"
NoReturn == [returned |-> FALSE, err |-> <<>>, open |-> {}, missed |-> {}]

(* Whether the done channel of the pipe is closed, by either end *)
PipeDone == pipe.werr # "open" \/ pipe.rclosed

(* A swap that does not compare *)
CompareAndSwapBlind(v, old, new) == [swapped |-> TRUE, v |-> new]

(* func (x *atomic.Int32) CompareAndSwap(old, new int32) (swapped bool) *)
CompareAndSwap(v, old, new) ==
    [swapped |-> v = old, v |-> IF v = old THEN new ELSE v]

(* errors.Join(errs...): the non-nil errors, in order *)
Join(errs) == SelectSeq(errs, LAMBDA e : e # "")

(* What CloseWithError of an io.PipeWriter returns: always nil *)
CloseWithErrorResult(err) == ""

(* What an unguarded read of a flag can give: the flag, or, when the write *)
(* of it is not ordered before the read, also the value it had before.     *)
FlagRead(flag) == IF flag /\ ~closer.synced THEN {TRUE, FALSE} ELSE {flag}

InitGz ==
    /\ built = FALSE
    /\ source = 0
    /\ rcClosed = FALSE
    /\ started = 0
    /\ gwClosed = FALSE
    /\ pwClosed = FALSE
    /\ closeErr = ""
    /\ copyErr = ""
    /\ gw = [closed |-> FALSE, err |-> ""]
    /\ pipe = [owner |-> "none", werr |-> "open", rclosed |-> FALSE]
    /\ task = [n |-> 0, at |-> "none", err |-> ""]
    /\ readers = [r \in 1..NReaders |-> "idle"]
    /\ reads = 0
    /\ closer = [at |-> "idle", synced |-> FALSE, errs |-> <<>>]
    /\ closeRet = NoReturn

(* func newCompressorGzip(rc io.ReadCloser) *compressorGzip, over a source  *)
(* of n chunks                                                             *)
NewCompressor ==
    /\ ~built
    /\ built' = TRUE
    /\ source' \in 0..MaxChunks
    /\ UNCHANGED <<rcClosed, started, gwClosed, pwClosed, closeErr, copyErr, gw,
                   pipe, task, readers, reads, closer, closeRet, notGzVars>>

(* Read, up to the call of c.pr.Read: the CompareAndSwap and the go statement *)
ReadStart(r) ==
    /\ built
    /\ readers[r] = "idle"
    /\ reads < MaxReads
    /\ LET cas == CompareAndSwap(started, 0, 1) IN
       /\ started' = cas.v
       /\ task' = IF cas.swapped
                  THEN [n |-> task.n + 1, at |-> "copy", err |-> ""]
                  ELSE task
    /\ readers' = [readers EXCEPT ![r] = "pr"]
    /\ reads' = reads + 1
    /\ UNCHANGED <<built, source, rcClosed, gwClosed, pwClosed, closeErr,
                   copyErr, gw, pipe, closer, closeRet, notGzVars>>

(* c.pr.Read returns: with the error of a closed pipe, or with the bytes a  *)
(* blocked writer offers, which lets that writer go on.                     *)
ReadPipe(r) ==
    /\ readers[r] = "pr"
    /\ PipeDone \/ pipe.owner # "none"
    /\ readers' = [readers EXCEPT ![r] = "idle"]
    /\ IF PipeDone
       THEN UNCHANGED <<pipe, task, closer>>
       ELSE /\ pipe' = [pipe EXCEPT !.owner = "none"]
            /\ task' = IF pipe.owner # "task" THEN task
                       ELSE IF task.at = "writing"
                            THEN [task EXCEPT !.at = "copy"]
                            ELSE [task EXCEPT !.at = "pwclose", !.err = ""]
            /\ closer' = IF pipe.owner # "closer" THEN closer
                         ELSE [closer EXCEPT !.at = "pw",
                                             !.errs = Append(@, "")]
    /\ UNCHANGED <<built, source, rcClosed, started, gwClosed, pwClosed,
                   closeErr, copyErr, gw, reads, closeRet, notGzVars>>

(* compressInput: one round of io.Copy(c.gw, c.rc), a read of the source     *)
(* and the write of what was read; a failure is stored in c.copyErr under   *)
(* the mutex.                                                               *)
TaskCopy ==
    /\ task.at = "copy"
    /\ \/ /\ copyErr' = ErrSource
          /\ task' = [task EXCEPT !.at = "defer"]
          /\ UNCHANGED <<source, gw, pipe>>
       \/ /\ ~rcClosed /\ source = 0
          /\ task' = [task EXCEPT !.at = "defer"]
          /\ UNCHANGED <<source, gw, pipe, copyErr>>
       \/ /\ ~rcClosed /\ source > 0
          /\ source' = source - 1
          /\ IF gw.err # "" \/ gw.closed \/ PipeDone
             THEN /\ copyErr' = IF gw.err # "" THEN gw.err
                                ELSE IF gw.closed THEN ErrWriterClosed
                                ELSE ErrClosedPipe
                  /\ gw' = IF gw.err = "" /\ ~gw.closed
                           THEN [gw EXCEPT !.err = ErrClosedPipe] ELSE gw
                  /\ task' = [task EXCEPT !.at = "defer"]
                  /\ UNCHANGED pipe
             ELSE /\ pipe.owner = "none"
                  /\ pipe' = [pipe EXCEPT !.owner = "task"]
                  /\ task' = [task EXCEPT !.at = "writing"]
                  /\ UNCHANGED <<gw, copyErr>>
    /\ UNCHANGED <<built, rcClosed, started, gwClosed, pwClosed, closeErr,
                   readers, reads, closer, closeRet, notGzVars>>

(* compressInput: a write blocked on the pipe fails once the pipe is closed *)
TaskWriteFail ==
    /\ task.at \in {"writing", "closing"}
    /\ PipeDone
    /\ pipe' = [pipe EXCEPT !.owner = "none"]
    /\ gw' = [gw EXCEPT !.err = ErrClosedPipe]
    /\ IF task.at = "writing"
       THEN /\ copyErr' = ErrClosedPipe
            /\ task' = [task EXCEPT !.at = "defer"]
       ELSE /\ task' = [task EXCEPT !.at = "pwclose", !.err = ErrClosedPipe]
            /\ UNCHANGED copyErr
    /\ UNCHANGED <<built, source, rcClosed, started, gwClosed, pwClosed,
                   closeErr, readers, reads, closer, closeRet, notGzVars>>

(* The deferred function: c.gwClosed, c.pwClosed = true, true *)
TaskDefer ==
    /\ task.at = "defer"
    /\ gwClosed' = TRUE
    /\ pwClosed' = TRUE
    /\ task' = [task EXCEPT !.at = "gwclose"]
    /\ UNCHANGED <<built, source, rcClosed, started, closeErr, copyErr, gw,
                   pipe, readers, reads, closer, closeRet, notGzVars>>

(* The deferred function: c.gw.Close(), which writes the rest of the stream *)
(* to the pipe unless the writer failed or was closed before               *)
TaskGwClose ==
    /\ task.at = "gwclose"
    /\ IF gw.err # "" \/ gw.closed
       THEN /\ task' = [task EXCEPT !.at = "pwclose", !.err = gw.err]
            /\ UNCHANGED <<gw, pipe>>
       ELSE IF PipeDone
       THEN /\ task' = [task EXCEPT !.at = "pwclose", !.err = ErrClosedPipe]
            /\ gw' = [closed |-> TRUE, err |-> ErrClosedPipe]
            /\ UNCHANGED pipe
       ELSE /\ pipe.owner = "none"
            /\ pipe' = [pipe EXCEPT !.owner = "task"]
            /\ gw' = [gw EXCEPT !.closed = TRUE]
            /\ task' = [task EXCEPT !.at = "closing"]
    /\ UNCHANGED <<built, source, rcClosed, started, gwClosed, pwClosed,
                   closeErr, copyErr, readers, reads, closer, closeRet,
                   notGzVars>>

(* The deferred function: c.pw.CloseWithError(err of c.gw.Close()) *)
TaskPwClose ==
    /\ task.at = "pwclose"
    /\ pipe' = IF pipe.werr # "open" THEN pipe
               ELSE [pipe EXCEPT !.werr = IF task.err = "" THEN "EOF"
                                          ELSE task.err]
    /\ task' = [task EXCEPT !.at = "record"]
    /\ UNCHANGED <<built, source, rcClosed, started, gwClosed, pwClosed,
                   closeErr, copyErr, gw, readers, reads, closer, closeRet,
                   notGzVars>>

(* The deferred function: c.closeErr = err, under the mutex *)
TaskRecord ==
    /\ task.at = "record"
    /\ closeErr' = CloseWithErrorResult(task.err)
    /\ task' = [task EXCEPT !.at = "done"]
    /\ UNCHANGED <<built, source, rcClosed, started, gwClosed, pwClosed,
                   copyErr, gw, pipe, readers, reads, closer, closeRet,
                   notGzVars>>

(* Close: errs := []error{c.closeErr, c.copyErr}, under the mutex.  The     *)
(* flags read later are ordered after the goroutine's writes of them when   *)
(* the goroutine released the mutex before.                                 *)
CloseStart ==
    /\ built
    /\ closer.at = "idle"
    /\ closer' = [at |-> "gw", synced |-> task.at = "done",
                  errs |-> <<closeErr, copyErr>>]
    /\ UNCHANGED <<built, source, rcClosed, started, gwClosed, pwClosed,
                   closeErr, copyErr, gw, pipe, task, readers, reads, closeRet,
                   notGzVars>>

(* Close: if !c.gwClosed { errs = append(errs, c.gw.Close()) } *)
CloseGw ==
    /\ closer.at = "gw"
    /\ \E seen \in FlagRead(gwClosed) :
         IF seen
         THEN /\ closer' = [closer EXCEPT !.at = "pw"]
              /\ UNCHANGED <<gw, pipe>>
         ELSE IF gw.err # "" \/ gw.closed
         THEN /\ closer' = [closer EXCEPT !.at = "pw", !.errs = Append(@, gw.err)]
              /\ UNCHANGED <<gw, pipe>>
         ELSE IF PipeDone
         THEN /\ closer' = [closer EXCEPT !.at = "pw",
                                          !.errs = Append(@, ErrClosedPipe)]
              /\ gw' = [closed |-> TRUE, err |-> ErrClosedPipe]
              /\ UNCHANGED pipe
         ELSE /\ gw' = [gw EXCEPT !.closed = TRUE]
              /\ closer' = [closer EXCEPT !.at = "gwwrite"]
              /\ UNCHANGED pipe
    /\ UNCHANGED <<built, source, rcClosed, started, gwClosed, pwClosed,
                   closeErr, copyErr, task, readers, reads, closeRet,
                   notGzVars>>

(* Close: the write of c.gw.Close() to the pipe gets the pipe's write lock, *)
(* or fails because the pipe is closed                                      *)
CloseGwWrite ==
    /\ closer.at = "gwwrite"
    /\ IF PipeDone
       THEN /\ closer' = [closer EXCEPT !.at = "pw",
                                        !.errs = Append(@, ErrClosedPipe)]
            /\ gw' = [gw EXCEPT !.err = ErrClosedPipe]
            /\ pipe' = IF pipe.owner = "closer"
                       THEN [pipe EXCEPT !.owner = "none"] ELSE pipe
       ELSE /\ pipe.owner = "none"
            /\ pipe' = [pipe EXCEPT !.owner = "closer"]
            /\ UNCHANGED <<closer, gw>>
    /\ UNCHANGED <<built, source, rcClosed, started, gwClosed, pwClosed,
                   closeErr, copyErr, task, readers, reads, closeRet,
                   notGzVars>>

(* Close: if !c.pwClosed { errs = append(errs, c.pw.Close()) } *)
ClosePw ==
    /\ closer.at = "pw"
    /\ \E seen \in FlagRead(pwClosed) :
         IF seen
         THEN /\ closer' = [closer EXCEPT !.at = "rc"]
              /\ UNCHANGED pipe
         ELSE /\ closer' = [closer EXCEPT !.at = "rc", !.errs = Append(@, "")]
              /\ pipe' = IF pipe.werr # "open" THEN pipe
                         ELSE [pipe EXCEPT !.werr = "EOF"]
    /\ UNCHANGED <<built, source, rcClosed, started, gwClosed, pwClosed,
                   closeErr, copyErr, gw, task, readers, reads, closeRet,
                   notGzVars>>

(* Close: c.rc.Close(), which may fail *)
CloseRc ==
    /\ closer.at = "rc"
    /\ rcClosed' = TRUE
    /\ \E e \in {"", ErrSourceClose} :
         closer' = [closer EXCEPT !.at = "pr", !.errs = Append(@, e)]
    /\ UNCHANGED <<built, source, started, gwClosed, pwClosed, closeErr,
                   copyErr, gw, pipe, task, readers, reads, closeRet,
                   notGzVars>>

(* Close: c.pr.Close() and return errors.Join(errs...); closeRet also keeps *)
(* which resources were not closed and which recorded errors the result    *)
(* lacks at that moment.                                                    *)
ClosePr ==
    /\ closer.at = "pr"
    /\ pipe' = [pipe EXCEPT !.rclosed = TRUE]
    /\ closer' = [closer EXCEPT !.at = "returned", !.errs = Append(@, "")]
    /\ LET out == Join(closer'.errs) IN
       closeRet' =
         [returned |-> TRUE,
          err |-> out,
          open |-> {x \in {"gw", "pw", "rc"} :
                      \/ x = "gw" /\ ~gw.closed
                      \/ x = "pw" /\ pipe.werr = "open"
                      \/ x = "rc" /\ ~rcClosed},
          missed |-> {e \in {closeErr, copyErr} :
                        e # "" /\ \A i \in 1..Len(out) : out[i] # e}]
    /\ UNCHANGED <<built, source, rcClosed, started, gwClosed, pwClosed,
                   closeErr, copyErr, gw, task, readers, reads, notGzVars>>

NextGz ==
    \/ NewCompressor
    \/ \E r \in 1..NReaders : ReadStart(r) \/ ReadPipe(r)
    \/ TaskCopy \/ TaskWriteFail \/ TaskDefer \/ TaskGwClose
    \/ TaskPwClose \/ TaskRecord
    \/ CloseStart \/ CloseGw \/ CloseGwWrite \/ ClosePw \/ CloseRc \/ ClosePr

-----------------------------------------------------------------------------
(* The handler adapters of handler_fns.go, called on a Request by a caller  *)
(* that keeps the Request and may hand it to a handler again.               *)
MaxHandlerCalls == 2

(* An io.Reader over the bytes of doc; read: whether it was read to its end *)
Reader(doc) == [doc |-> doc, read |-> FALSE]

(* JSON texts: valid ones stand for the value v they decode to *)
NoValue == [name |-> "", okErrs |-> <<>>]
JSONOf(v) == [text |-> "valid", v |-> v]
EmptyJSON == [text |-> "", v |-> NoValue]
MalformedJSON == [text |-> "{", v |-> NoValue]

(* Values of the body type T, with what their OK() returns *)
BodyValues ==
    { [name |-> "fine", okErrs |-> <<>>],
      [name |-> "one", okErrs |-> <<APIError(StatusBadRequest, "bad name")>>],
      [name |-> "two", okErrs |-> <<APIError(StatusBadRequest, "bad name"),
                                    APIError(StatusInternalServerError, "bad age")>>],
      [name |-> "owt", okErrs |-> <<APIError(StatusInternalServerError, "bad age"),
                                    APIError(StatusBadRequest, "bad name")>>],
      [name |-> "uncoded", okErrs |-> <<APIError(0, "no code")>>] }

(* T interface{ OK() []APIError } *)
OK(v) == v.okErrs

NoWorkflow == [ExecutionID |-> ""]
WorkflowCtx == [ExecutionID |-> "exec-1"]
BodyDocs == {JSONOf(v) : v \in BodyValues} \cup {EmptyJSON, MalformedJSON}
ContextDocs == {JSONOf(WorkflowCtx), EmptyJSON, MalformedJSON}

(* The attributes of a Request other than Body and Context *)
ReqAttrs ==
    { [FnID |-> "fn-1", FnVersion |-> 2, Headers |-> "X-Key: v", Queries |-> "q=1",
       URL |-> "/a", Method |-> "POST", AccessToken |-> "token", TraceID |-> "trace-1"],
      [FnID |-> "", FnVersion |-> 0, Headers |-> "", Queries |-> "",
       URL |-> "", Method |-> "GET", AccessToken |-> "", TraceID |-> ""] }

AdapterRequests ==
    { [FnID |-> a.FnID, FnVersion |-> a.FnVersion, Body |-> Reader(b),
       Context |-> c, Headers |-> a.Headers, Queries |-> a.Queries,
       URL |-> a.URL, Method |-> a.Method, AccessToken |-> a.AccessToken,
       TraceID |-> a.TraceID] : a \in ReqAttrs, b \in BodyDocs, c \in ContextDocs }

(* A decode that leaves the reader as it found it *)
DecodeBodyRewinding(body) ==
    IF body.read \/ body.doc.text = ""
    THEN [err |-> "EOF", v |-> NoValue, body |-> body]
    ELSE IF body.doc.text # "valid"
    THEN [err |-> "unexpected EOF", v |-> NoValue, body |-> body]
    ELSE [err |-> "", v |-> body.doc.v, body |-> body]

(* json.NewDecoder(r.Body).Decode(&v): reads the Reader; a Reader that was  *)
(* read before, or that holds no bytes, gives io.EOF.                       *)
DecodeBody(body) ==
    IF body.read \/ body.doc.text = ""
    THEN [err |-> "EOF", v |-> NoValue, body |-> [body EXCEPT !.read = TRUE]]
    ELSE IF body.doc.text # "valid"
    THEN [err |-> "unexpected EOF", v |-> NoValue,
          body |-> [body EXCEPT !.read = TRUE]]
    ELSE [err |-> "", v |-> body.doc.v, body |-> [body EXCEPT !.read = TRUE]]

(* json.Unmarshal(r.Context, &w) *)
Unmarshal(doc) ==
    IF doc.text = "valid" THEN [err |-> "", v |-> doc.v]
    ELSE [err |-> "unexpected end of JSON input", v |-> NoWorkflow]

(* A RequestOf[T] that loses the trace id *)
RequestOfWithoutTraceID(r, v) == [r EXCEPT !.Body = v, !.TraceID = ""]

(* The RequestOf[T]{...} literal of HandleFnOf *)
RequestOf(r, v) ==
    [FnID |-> r.FnID, FnVersion |-> r.FnVersion, Body |-> v,
     Context |-> r.Context, Headers |-> r.Headers, Queries |-> r.Queries,
     URL |-> r.URL, Method |-> r.Method, AccessToken |-> r.AccessToken,
     TraceID |-> r.TraceID]

(* What the innermost, user-written function returns *)
InnerResp == Response(JSONBody, 201, <<>>)

(* A short-circuit that keeps the first error only *)
OKFailRespFirstOnly(errs) == ErrResp(<<errs[1]>>)

(* HandlerFnOfOK: return ErrResp(errs...) *)
OKFailResp(errs) == ErrResp(errs)

(* The function a HandleFnOf wraps: fn.validate tells whether it is the     *)
(* closure of HandlerFnOfOK, fn.w is the WorkflowCtx the closure of        *)
(* HandleWorkflowOf passes along.  calls: the calls of the innermost       *)
(* function, with their arguments.                                         *)
TypedFn(fn, t) ==
    IF fn.validate /\ Len(OK(t.Body)) > 0
    THEN [resp |-> OKFailResp(OK(t.Body)), calls |-> <<>>]
    ELSE [resp |-> InnerResp, calls |-> <<[r |-> t, w |-> fn.w]>>]

(* func HandleFnOf[T any](fn) Handler, called on r *)
HandleFnOf(fn, r) ==
    LET d == DecodeBody(r.Body) IN
    IF d.err # ""
    THEN [resp |-> Response(NoBody, 0,
                     <<APIError(StatusBadRequest,
                                "failed to unmarshal payload: " \o d.err)>>),
          calls |-> <<>>, body |-> d.body]
    ELSE LET o == TypedFn(fn, RequestOf(r, d.v)) IN
         [resp |-> o.resp, calls |-> o.calls, body |-> d.body]

(* func HandlerFnOfOK[T](fn) Handler, called on r *)
HandlerFnOfOK(r) == HandleFnOf([validate |-> TRUE, w |-> NoWorkflow], r)

(* func HandleWorkflow(fn) Handler, called on r; typed: whether fn is the   *)
(* closure of HandleWorkflowOf, which calls HandleFnOf(...).Handle(ctx, r)  *)
HandleWorkflow(typed, r) ==
    LET u == Unmarshal(r.Context) IN
    IF u.err # ""
    THEN [resp |-> Response(NoBody, 0,
                     <<APIError(StatusBadRequest,
                                "failed to unmarshal workflow context: " \o u.err)>>),
          calls |-> <<>>, body |-> r.Body]
    ELSE IF typed
    THEN HandleFnOf([validate |-> FALSE, w |-> u.v], r)
    ELSE [resp |-> InnerResp, calls |-> <<[r |-> r, w |-> u.v]>>, body |-> r.Body]

(* A HandleWorkflowOf that decodes the body first *)
HandleWorkflowOfBodyFirst(r) ==
    IF DecodeBody(r.Body).err # ""
    THEN HandleFnOf([validate |-> FALSE, w |-> NoWorkflow], r)
    ELSE HandleWorkflow(TRUE, r)

(* func HandleWorkflowOf[T any](fn) Handler, called on r *)
HandleWorkflowOf(r) == HandleWorkflow(TRUE, r)

Adapters == {"HandleFnOf", "HandlerFnOfOK", "HandleWorkflow", "HandleWorkflowOf"}

(* h.Handle(ctx, r) for the handler the named adapter built *)
AdapterHandle(adapter, r) ==
    CASE adapter = "HandleFnOf" -> HandleFnOf([validate |-> FALSE, w |-> NoWorkflow], r)
      [] adapter = "HandlerFnOfOK" -> HandlerFnOfOK(r)
      [] adapter = "HandleWorkflow" -> HandleWorkflow(FALSE, r)
      [] OTHER -> HandleWorkflowOf(r)

InitAdapters ==
    /\ callerReq = [FnID |-> "", FnVersion |-> 0, Body |-> Reader(EmptyJSON),
                    Context |-> EmptyJSON, Headers |-> "", Queries |-> "",
                    URL |-> "", Method |-> "", AccessToken |-> "", TraceID |-> ""]
    /\ handled = <<>>

(* The caller gets a new Request *)
NewRequest ==
    /\ callerReq' \in AdapterRequests
    /\ handled' = <<>>
    /\ UNCHANGED notAdapterVars

(* The caller hands its Request to a handler built by one of the adapters.  *)
(* The Request is passed by value; its Body is a reference to the Reader.   *)
CallAdapter ==
    /\ Len(handled) < MaxHandlerCalls
    /\ \E adapter \in Adapters :
         LET o == AdapterHandle(adapter, callerReq) IN
         /\ handled' = Append(handled, [adapter |-> adapter, r |-> callerReq,
                                        resp |-> o.resp, calls |-> o.calls,
                                        body |-> o.body])
         /\ callerReq' = [callerReq EXCEPT !.Body = o.body]
    /\ UNCHANGED notAdapterVars

NextAdapters == NewRequest \/ CallAdapter

-----------------------------------------------------------------------------
(* The headers of toRequest (part_001): the mapping of the inbound envelope *)
(* is copied key by key into a new http.Header with Header.Add.  A key is   *)
(* a sequence of characters.                                                *)
MaxHeaderValues == 3

ToUpper(c) == CASE c = "a" -> "A" [] c = "b" -> "B" [] OTHER -> c
ToLower(c) == CASE c = "A" -> "a" [] c = "B" -> "b" [] OTHER -> c
IsTokenChar(c) == c # " "

(* A canonical form that leaves the key as it is *)
KeyAsSubmitted(k) == k

(* textproto.CanonicalMIMEHeaderKey: the first letter and every letter      *)
(* after a hyphen in upper case, the others in lower case; a key with a    *)
(* space or another character not allowed in a header name is left as is.  *)
CanonicalMIMEHeaderKey(k) ==
    IF \E i \in 1..Len(k) : ~IsTokenChar(k[i]) THEN k
    ELSE [i \in 1..Len(k) |->
            IF i = 1 \/ k[i - 1] = "-" THEN ToUpper(k[i]) ELSE ToLower(k[i])]

EnvelopeKeys ==
    { <<"a", "-", "b">>, <<"A", "-", "B">>, <<"A", "-", "b">>, <<"b">>,
      <<"a", " ", "b">> }
LookupKeys ==
    EnvelopeKeys \cup { <<"a", "-", "B">>, <<"B">>, <<"A", " ", "b">> }
HeaderValues == {"v1", "v2"}
CanonKeys == {CanonicalMIMEHeaderKey(k) : k \in EnvelopeKeys} \cup EnvelopeKeys

(* The keys a range over the header mapping visits: those with values *)
Present(h) == {k \in DOMAIN h : h[k] # <<>>}

(* The orders in which a range over a Go map may visit its keys: any *)
RangeOrders(h) ==
    {o \in [1..Cardinality(Present(h)) -> Present(h)] :
       \A i, j \in DOMAIN o : i # j => o[i] # o[j]}

(* hCanon.Add(k, s) for each s of v: the values of k are appended to what   *)
(* the canonical key holds                                                 *)
AddValues(hCanon, k, v) ==
    [hCanon EXCEPT ![CanonicalMIMEHeaderKey(k)] = @ \o v]

(* The loop "for k, v := range r.Headers" of toRequest, visiting the keys   *)
(* in the order o from its i-th key on                                      *)
RECURSIVE RangeHeaders(_, _, _, _)
RangeHeaders(hCanon, h, o, i) ==
    IF i > Len(o) THEN hCanon
    ELSE RangeHeaders(AddValues(hCanon, o[i], h[o[i]]), h, o, i + 1)

(* http.Header.Values(key) and http.Header.Get(key) *)
Values(h, key) ==
    LET c == CanonicalMIMEHeaderKey(key) IN
    IF c \in DOMAIN h THEN h[c] ELSE <<>>
Get(h, key) == IF Values(h, key) = <<>> THEN "" ELSE Values(h, key)[1]

(* How many values the header mapping h holds under the keys S *)
RECURSIVE CountValues(_, _)
CountValues(h, S) ==
    IF S = {} THEN 0
    ELSE LET k == CHOOSE x \in S : TRUE
         IN  Len(h[k]) + CountValues(h, S \ {k})

InitHeaders ==
    /\ envHeaders = [k \in EnvelopeKeys |-> <<>>]
    /\ reqHeaders = <<>>

(* The sender puts one more value for a key into the envelope's header *)
SubmitHeader ==
    /\ reqHeaders = <<>>
    /\ CountValues(envHeaders, EnvelopeKeys) < MaxHeaderValues
    /\ \E k \in EnvelopeKeys, v \in HeaderValues :
         envHeaders' = [envHeaders EXCEPT ![k] = Append(@, v)]
    /\ UNCHANGED <<reqHeaders, notHeaderVars>>

(* toRequest builds the Request's Headers *)
CanonHeaders ==
    /\ reqHeaders = <<>>
    /\ \E o \in RangeOrders(envHeaders) :
         reqHeaders' =
           <<RangeHeaders([c \in CanonKeys |-> <<>>], envHeaders, o, 1)>>
    /\ UNCHANGED <<envHeaders, notHeaderVars>>

(* The next envelope *)
NextEnvelope ==
    /\ reqHeaders # <<>>
    /\ envHeaders' = [k \in EnvelopeKeys |-> <<>>]
    /\ reqHeaders' = <<>>
    /\ UNCHANGED notHeaderVars

NextHeaders == SubmitHeader \/ CanonHeaders \/ NextEnvelope

-----------------------------------------------------------------------------
(* Decoding a multipart submission, stream by stream (part_001 138-242,
   complex_payload.go).  A submission is the meta field, the other form
   values, and the file parts in the order they were sent; a stream is
   named by the index of the file part it was opened from, and 0 names
   req.Body. *)
MaxParts == 2
FormFields == {"body", "doc"}
Filenames == {"a.txt", "b.txt"}
FormValues == {"body"}
MetaFields == {"valid", "missing", "invalid"}

(* A *multipart.FileHeader: the form field it was sent under, its Filename,
   and whether Open succeeds on it *)
FileHeaders == [field : FormFields, filename : Filenames, opens : BOOLEAN]
Forms ==
    [meta : MetaFields,
     parts : UNION {[1..n -> FileHeaders] : n \in 0..MaxParts},
     values : SUBSET FormValues]

(* req.MultipartForm as isComplexMultipartReq reads it: the keys of m.File
   and the keys of m.Value other than meta *)
MultipartForm(f) ==
    [files |-> {f.parts[i].field : i \in DOMAIN f.parts}, values |-> f.values]

(* m.File[key]: the file parts sent under one field, in the order sent *)
FileHeadersOf(f, key) ==
    LET sentUnder(i) == f.parts[i].field = key
    IN SelectSeq([i \in DOMAIN f.parts |-> i], sentUnder)

(* The orders in which range m.File can yield the keys of m.File *)
FileRangeOrders(f) ==
    LET keys == MultipartForm(f).files
    IN {o \in [1..Cardinality(keys) -> keys] :
           \A i, j \in DOMAIN o : i # j => o[i] # o[j]}

(* The file parts in the order the two nested loops reach them *)
RECURSIVE VisitOrder(_, _, _)
VisitOrder(f, o, k) ==
    IF k > Len(o) THEN <<>>
    ELSE FileHeadersOf(f, o[k]) \o VisitOrder(f, o, k + 1)

NoFiles == [n \in Filenames |-> 0]
NoDecode ==
    [kind |-> "none", files |-> NoFiles, body |-> 0, opens |-> {},
     closeFn |-> "nil", wrote |-> "none"]

(* The loops of fromComplexMultipartReq from the k-th part reached: Open,
   return at the first failure, else c.Files[header.Filename] = f0 *)
RECURSIVE OpenFiles(_, _, _, _)
OpenFiles(f, visit, k, c) ==
    IF k > Len(visit) THEN c
    ELSE LET i == visit[k]
         IN IF ~f.parts[i].opens
            THEN [c EXCEPT !.kind = "err"]
            ELSE OpenFiles(f, visit, k + 1,
                     [c EXCEPT !.files[f.parts[i].filename] = i,
                               !.opens = @ \cup {i}])

(* func fromComplexMultipartReq(reqFn reqMeta, m *multipart.Form) *)
fromComplexMultipartReq(f, o) ==
    OpenFiles(f, VisitOrder(f, o, 1), 1,
        [NoDecode EXCEPT !.kind = "complex", !.closeFn = "body.Close"])

(* req.FormFile(key): the first file part sent under key, opened *)
FormFile(f, key) ==
    LET fhs == FileHeadersOf(f, key)
    IN IF Len(fhs) = 0 THEN [NoDecode EXCEPT !.kind = "err"]
       ELSE IF ~f.parts[fhs[1]].opens THEN [NoDecode EXCEPT !.kind = "err"]
       ELSE [NoDecode EXCEPT !.kind = "plain", !.body = fhs[1],
                             !.opens = {fhs[1]}, !.closeFn = "body.Close"]

(* func fromMultipartReq(req *http.Request), on the form itself *)
fromMultipartForm(f, o) ==
    IF f.meta # "valid" THEN [NoDecode EXCEPT !.kind = "err"]
    ELSE IF isComplexMultipartReq(MultipartForm(f))
    THEN fromComplexMultipartReq(f, o)
    ELSE FormFile(f, "body")

(* func toRequest: on an error the close function it returns is nil,
   whatever fromFn returned as the body *)
toRequestOfForm(f, o) ==
    LET d == fromMultipartForm(f, o)
    IN IF d.kind = "err" THEN [d EXCEPT !.closeFn = "nil"] ELSE d

(* func (c *ComplexPayload) Close(): every value of c.Files *)
ComplexPayloadClose(d) == {d.files[n] : n \in Filenames} \ {0}

(* What the deferred close function of dispatchReq closes *)
closeFn(d) ==
    IF d.closeFn = "nil" THEN {}
    ELSE IF d.kind = "complex" THEN ComplexPayloadClose(d)
    ELSE {d.body}

InitMultipart ==
    /\ mpPc = "idle"
    /\ mpForm = [meta |-> "valid", parts |-> <<>>, values |-> {}]
    /\ mpOut = NoDecode
    /\ opened = {}
    /\ shut = {}

(* A multipart request arrives: req.Body is open *)
SubmitForm ==
    /\ mpPc = "idle"
    /\ \E f \in Forms : mpForm' = f
    /\ mpOut' = NoDecode
    /\ opened' = {0}
    /\ shut' = {}
    /\ mpPc' = "submitted"
    /\ UNCHANGED notMultipartVars

(* r, closeFn, err := toRequest(req) *)
DecodeForm ==
    /\ mpPc = "submitted"
    /\ \E o \in FileRangeOrders(mpForm) :
           /\ mpOut' = toRequestOfForm(mpForm, o)
           /\ opened' = opened \cup mpOut'.opens
    /\ mpPc' = "decoded"
    /\ UNCHANGED <<mpForm, shut, notMultipartVars>>

(* The rest of dispatchReq: the response is written, or the write fails,
   and the deferred calls run: closeFn unless it is nil, then the drain
   and the Close of req.Body *)
ServeForm ==
    /\ mpPc = "decoded"
    /\ \E w \in {"written", "write failed"} : mpOut' = [mpOut EXCEPT !.wrote = w]
    /\ shut' = shut \cup closeFn(mpOut) \cup {0}
    /\ mpPc' = "done"
    /\ UNCHANGED <<mpForm, opened, notMultipartVars>>

(* The server takes the next request *)
NextForm ==
    /\ mpPc = "done"
    /\ mpPc' = "idle"
    /\ UNCHANGED <<mpForm, mpOut, opened, shut, notMultipartVars>>

NextMultipart == SubmitForm \/ DecodeForm \/ ServeForm \/ NextForm

-----------------------------------------------------------------------------
(* Decoding a JSON envelope byte by byte (part_001 244-259).  The ceiling of
   5*mb bytes is scaled down to Ceiling bytes; an envelope is at most
   MaxEnvelope bytes long, which is above the ceiling. *)
Ceiling == 3
MaxEnvelope == 5
Bytes == {"{", "}", " ", "x"}

(* io.LimitReader(r, n) read to its end: the first n bytes of r, and no
   error when r holds more *)
LimitReader(body, n) ==
    SubSeq(body, 1, IF Len(body) < n THEN Len(body) ELSE n)

(* io.ReadAll *)
ReadAll(body, readErr) ==
    IF readErr THEN [err |-> TRUE, payload |-> <<>>]
    ELSE [err |-> FALSE, payload |-> body]

(* json.Unmarshal(payload, &r) succeeds: the payload is one JSON object,
   here the empty one, with white space allowed before, inside and after *)
UnmarshalBytes(payload) ==
    LET notSpace(b) == b # " "
    IN SelectSeq(payload, notSpace) = <<"{", "}">>

NoJSONDecode == [kind |-> "none", payload |-> <<>>]

(* func fromJSONReq(req *http.Request) *)
fromJSONBytes(body, readErr) ==
    LET rd == ReadAll(LimitReader(body, Ceiling), readErr)
    IN IF rd.err THEN [kind |-> "err", payload |-> <<>>]
       ELSE IF ~UnmarshalBytes(rd.payload)
       THEN [kind |-> "err", payload |-> rd.payload]
       ELSE [kind |-> "ok", payload |-> rd.payload]

InitJSON ==
    /\ jsonPc = "sending"
    /\ jsonBody = <<>>
    /\ jsonOut = NoJSONDecode

(* The client sends one more byte of the envelope *)
SendByte ==
    /\ jsonPc = "sending"
    /\ Len(jsonBody) < MaxEnvelope
    /\ \E b \in Bytes : jsonBody' = Append(jsonBody, b)
    /\ UNCHANGED <<jsonPc, jsonOut, notJSONVars>>

(* r, body, err := fromJSONReq(req) *)
FromJSONReq ==
    /\ jsonPc = "sending"
    /\ \E readErr \in BOOLEAN : jsonOut' = fromJSONBytes(jsonBody, readErr)
    /\ jsonPc' = "decoded"
    /\ UNCHANGED <<jsonBody, notJSONVars>>

(* The next request *)
NextJSONReq ==
    /\ jsonPc = "decoded"
    /\ jsonPc' = "sending"
    /\ jsonBody' = <<>>
    /\ jsonOut' = NoJSONDecode
    /\ UNCHANGED notJSONVars

NextJSON == SendByte \/ FromJSONReq \/ NextJSONReq

-----------------------------------------------------------------------------
(* CompressGzip (file.go 64-74).  An encoding is the sequence of its tokens,
   as above; the string it stands for is its tokens joined by ", ", and
   the test of CompressGzip is made on the bytes of that string. *)
MaxTokens == 2
EncodingTokens == {"gzip", "deflate", "x-gzip"}

(* The bytes of a token *)
Spell(token) ==
    CASE token = "gzip" -> <<"g", "z", "i", "p">>
      [] token = "deflate" -> <<"d", "e", "f", "l", "a", "t", "e">>
      [] token = "x-gzip" -> <<"x", "-", "g", "z", "i", "p">>

(* file.Encoding as a Go string *)
RECURSIVE EncodingString(_)
EncodingString(enc) ==
    IF enc = <<>> THEN <<>>
    ELSE IF Len(enc) = 1 THEN Spell(enc[1])
    ELSE Spell(enc[1]) \o <<",", " ">> \o EncodingString(Tail(enc))

(* strings.Contains(s, substr) *)
Contains(s, substr) ==
    \E i \in 1..(Len(s) + 1) :
        /\ i + Len(substr) - 1 <= Len(s)
        /\ SubSeq(s, i, i + Len(substr) - 1) = substr

(* func newCompressorGzip(rc io.ReadCloser): one more adapter around rc *)
newCompressorGzip(contents) == [contents EXCEPT !.layers = @ + 1]

(* CompressGzip without its test for gzip: it appends to every encoding
   that is not empty *)
CompressGzipAlwaysAppending(file) ==
    LET enc == EncodingString(file.Encoding)
        f1 == IF enc = <<>> THEN [file EXCEPT !.Encoding = <<"gzip">>]
              ELSE [file EXCEPT !.Encoding = Append(@, "gzip")]
    IN [f1 EXCEPT !.Contents = newCompressorGzip(@)]

(* func CompressGzip(file File) File: file.Encoding += ", gzip" adds the
   token gzip to a string that is not empty *)
CompressGzip(file) ==
    LET enc == EncodingString(file.Encoding)
        f1 == IF enc = <<>> THEN [file EXCEPT !.Encoding = <<"gzip">>]
              ELSE IF ~Contains(enc, Spell("gzip"))
              THEN [file EXCEPT !.Encoding = Append(@, "gzip")]
              ELSE file
    IN [f1 EXCEPT !.Contents = newCompressorGzip(@)]

PlainFiles ==
    { File(ct, enc, name, [layers |-> 0, source |-> <<1, 2>>]) :
        ct \in {"text/plain", "application/json"},
        enc \in UNION {[1..n -> EncodingTokens] : n \in 0..MaxTokens},
        name \in {<<>>, <<"test", "json">>} }

InitCompress ==
    /\ czTimes = 0
    /\ czIn = File("text/plain", <<>>, <<>>, [layers |-> 0, source |-> <<1, 2>>])
    /\ czFile = czIn
    /\ czOnce = czIn

(* f = fdk.CompressGzip(f), for the first or the second time *)
CallCompressGzip ==
    /\ czTimes < 2
    /\ czFile' = CompressGzip(czFile)
    /\ czOnce' = IF czTimes = 0 THEN czFile' ELSE czOnce
    /\ czTimes' = czTimes + 1
    /\ UNCHANGED <<czIn, notCompressVars>>

(* Another File *)
NextFile ==
    /\ \E f \in PlainFiles : czIn' = f /\ czFile' = f /\ czOnce' = f
    /\ czTimes' = 0
    /\ UNCHANGED notCompressVars

NextCompress == CallCompressGzip \/ NextFile

-----------------------------------------------------------------------------
(* The HTTP transport loop (part_001 28-58): the http.Server s, the
   goroutine that waits for ctx.Done() and calls s.Shutdown, and the
   requests being served. *)
MaxConns == 4
ConnIds == 1..MaxConns

(* A Shutdown that marks the server and leaves its listeners open *)
ShutdownKeepingListeners(s) == [s EXCEPT !.inShutdown = TRUE]

(* s.Shutdown(ctx), at its call: the server is marked as shutting down and
   its listeners are closed *)
Shutdown(s) ==
    [s EXCEPT !.inShutdown = TRUE,
              !.listener = IF @ = "open" THEN "closed" ELSE @]

InFlight == {id \in ConnIds : conns[id] = "in flight"}

InitServe ==
    /\ srv = [inShutdown |-> FALSE, listener |-> "new"]
    /\ ctxDone = FALSE
    /\ conns = [id \in ConnIds |-> "none"]
    /\ runReturned = FALSE
    /\ shutdownErr = "not called"

(* s.ListenAndServe(): the listener is opened, or cannot be, and then
   ListenAndServe returns and runHTTP with it *)
ListenAndServe ==
    /\ srv.listener = "new"
    /\ ~srv.inShutdown
    /\ ~runReturned
    /\ \/ /\ srv' = [srv EXCEPT !.listener = "open"]
          /\ UNCHANGED runReturned
       \/ /\ srv' = [srv EXCEPT !.listener = "failed"]
          /\ runReturned' = TRUE
    /\ UNCHANGED <<ctxDone, conns, shutdownErr, notServeVars>>

(* The server accepts a connection and starts dispatchReq for its request *)
AcceptConn ==
    /\ srv.listener = "open"
    /\ \E id \in ConnIds :
           /\ conns[id] = "none"
           /\ \A j \in ConnIds : j < id => conns[j] # "none"
           /\ conns' = [conns EXCEPT ![id] = "in flight"]
    /\ UNCHANGED <<srv, ctxDone, runReturned, shutdownErr, notServeVars>>

(* dispatchReq returns for one request *)
FinishConn ==
    /\ \E id \in InFlight : conns' = [conns EXCEPT ![id] = "done"]
    /\ UNCHANGED <<srv, ctxDone, runReturned, shutdownErr, notServeVars>>

(* The caller of Run cancels ctx *)
Cancel ==
    /\ ~ctxDone
    /\ ctxDone' = TRUE
    /\ UNCHANGED <<srv, conns, runReturned, shutdownErr, notServeVars>>

(* case <-ctx.Done(): s.Shutdown(shutdownCtx) is called *)
CallShutdown ==
    /\ ctxDone
    /\ shutdownErr = "not called"
    /\ srv' = Shutdown(srv)
    /\ shutdownErr' = "pending"
    /\ UNCHANGED <<ctxDone, conns, runReturned, notServeVars>>

(* s.Shutdown returns: nil once no request is in flight, or the error of
   shutdownCtx when its 15 seconds are over first; the error is logged *)
ShutdownReturns ==
    /\ shutdownErr = "pending"
    /\ \/ InFlight = {} /\ shutdownErr' = "nil"
       \/ InFlight # {} /\ shutdownErr' = "context deadline exceeded"
    /\ UNCHANGED <<srv, ctxDone, conns, runReturned, notServeVars>>

(* s.ListenAndServe() returns ErrServerClosed once s is shutting down, and
   runHTTP returns *)
ServeReturns ==
    /\ srv.inShutdown
    /\ srv.listener # "open"
    /\ ~runReturned
    /\ runReturned' = TRUE
    /\ UNCHANGED <<srv, ctxDone, conns, shutdownErr, notServeVars>>

NextServe ==
    \/ ListenAndServe \/ AcceptConn \/ FinishConn \/ Cancel
    \/ CallShutdown \/ ShutdownReturns \/ ServeReturns

-----------------------------------------------------------------------------
(* Requests served at the same time, and the context each handler call
   gets (part_001 94-97, runner_http.go 357-397).  A context is the
   sequence of the trace ids put on it with context.WithValue, oldest
   first; <<>> is a context without a trace id. *)
MaxInFlight == 2
MaxCtxDepth == 3
ReqIds == 1..MaxInFlight
TraceIDs == {"trace1", "trace2"}
Runners == {"dispatchReq", "newHTTPRunMux"}

(* context.WithValue(parent, ctxKeyTraceID, traceID) *)
WithValue(parent, traceID) == Append(parent, traceID)

(* ctx.Value(ctxKeyTraceID): the value set last, "" when there is none *)
CtxValue(c) == IF c = <<>> THEN "" ELSE c[Len(c)]

NoReq == [at |-> "none", via |-> "", TraceID |-> "", ctx |-> <<>>, seen |-> ""]

(* The context the handler of a request is called with.  dispatchReq
   declares its own ctx for each request; the closure of newHTTPRunMux
   assigns to, and reads, the ctx parameter of newHTTPRunMux, one variable
   for all requests. *)
HandlerCtx(rq, shared) ==
    IF rq.via = "dispatchReq" THEN rq.ctx ELSE shared

InitTrace ==
    /\ reqs = [id \in ReqIds |-> NoReq]
    /\ muxCtx = <<>>

(* r, err := toRequest(req): a request with its trace_id, on one of the
   two muxes *)
Arrive ==
    /\ Len(muxCtx) + Cardinality({j \in ReqIds : reqs[j].at = "decoded"})
           < MaxCtxDepth
    /\ \E id \in ReqIds, t \in TraceIDs, via \in Runners :
           /\ reqs[id].at = "none"
           /\ reqs' = [reqs EXCEPT ![id] =
                  [NoReq EXCEPT !.at = "decoded", !.via = via, !.TraceID = t]]
    /\ UNCHANGED <<muxCtx, notTraceVars>>

(* ctx := context.WithValue(req.Context(), ctxKeyTraceID, r.TraceID) in
   dispatchReq; ctx = context.WithValue(ctx, ctxKeyTraceID, r.TraceID) in
   newHTTPRunMux *)
SetTraceID ==
    /\ \E id \in ReqIds :
           /\ reqs[id].at = "decoded"
           /\ IF reqs[id].via = "dispatchReq"
              THEN /\ reqs' = [reqs EXCEPT ![id].at = "ctx set",
                                           ![id].ctx = WithValue(<<>>, reqs[id].TraceID)]
                   /\ UNCHANGED muxCtx
              ELSE /\ reqs' = [reqs EXCEPT ![id].at = "ctx set"]
                   /\ muxCtx' = WithValue(muxCtx, reqs[id].TraceID)
    /\ UNCHANGED notTraceVars

(* resp := handler.Handle(ctx, r): the handler reads the trace id of ctx *)
HandleReq ==
    /\ \E id \in ReqIds :
           /\ reqs[id].at = "ctx set"
           /\ reqs' = [reqs EXCEPT ![id].at = "handled",
                         ![id].seen = CtxValue(HandlerCtx(reqs[id], muxCtx))]
    /\ UNCHANGED <<muxCtx, notTraceVars>>

(* The response is written; the next request can come in its place *)
RespondReq ==
    /\ \E id \in ReqIds :
           /\ reqs[id].at = "handled"
           /\ reqs' = [reqs EXCEPT ![id] = NoReq]
    /\ UNCHANGED <<muxCtx, notTraceVars>>

NextTrace == Arrive \/ SetTraceID \/ HandleReq \/ RespondReq

-----------------------------------------------------------------------------
(* The fields of compressorGzip access by access (file.go 76-137): which
   goroutine reads or writes which field, and what it holds when it does.
   The callers of Read, the goroutine of compressInput and the caller of
   Close run one statement at a time; c.mu.Lock() waits for the mutex. *)
Callers == {"read1", "read2"}
Threads == Callers \cup {"task", "close"}

(* c.mu.Lock() by a goroutine, once the mutex is free; c.mu.Unlock() *)
LockNotTaken(self) == "free"
Lock(self) == self
Unlock == "free"

(* One access to a field of c: kind is "read", "write" or, for the
   operations of atomic.Int32, "atomic" *)
Access(self, field, kind) ==
    [by |-> self, field |-> field, kind |-> kind,
     guard |-> IF kind = "atomic" THEN "atomic"
               ELSE IF mu = self THEN "mu" ELSE "none"]

InitGuard ==
    /\ mu = "free"
    /\ latch = 0
    /\ thr = [t \in Threads |->
                 IF t \in Callers THEN "idle"
                 ELSE IF t = "task" THEN "none" ELSE "idle"]
    /\ accesses = {}

(* Read: c.started.CompareAndSwap(0, 1), and go c.compressInput() when it
   swapped *)
GuardRead ==
    /\ \E r \in Callers :
           /\ thr[r] = "idle"
           /\ LET cas == CompareAndSwap(latch, 0, 1) IN
              /\ latch' = cas.v
              /\ thr' = [thr EXCEPT ![r] = "pr.Read",
                                    !["task"] = IF cas.swapped THEN "io.Copy" ELSE @]
           /\ accesses' = accesses \cup {Access(r, "started", "atomic")}
    /\ UNCHANGED <<mu, notGuardVars>>

(* return c.pr.Read(p) *)
GuardReadReturns ==
    /\ \E r \in Callers :
           /\ thr[r] = "pr.Read"
           /\ thr' = [thr EXCEPT ![r] = "idle"]
    /\ UNCHANGED <<mu, latch, accesses, notGuardVars>>

(* compressInput: io.Copy(c.gw, c.rc) ends, with an error to record or
   without *)
GuardCopy ==
    /\ thr["task"] = "io.Copy"
    /\ \E failed \in BOOLEAN :
           thr' = [thr EXCEPT !["task"] = IF failed THEN "lock copyErr" ELSE "defer"]
    /\ UNCHANGED <<mu, latch, accesses, notGuardVars>>

(* c.mu.Lock() in compressInput and in Close *)
GuardLock ==
    /\ mu = "free"
    /\ \E t \in {"task", "close"} :
           /\ thr[t] \in {"lock copyErr", "lock closeErr", "lock errs"}
           /\ mu' = Lock(t)
           /\ thr' = [thr EXCEPT ![t] =
                  CASE @ = "lock copyErr" -> "copyErr"
                    [] @ = "lock closeErr" -> "closeErr"
                    [] @ = "lock errs" -> "errs"]
    /\ UNCHANGED <<latch, accesses, notGuardVars>>

(* c.copyErr = err; c.mu.Unlock() *)
GuardCopyErr ==
    /\ thr["task"] = "copyErr"
    /\ accesses' = accesses \cup {Access("task", "copyErr", "write")}
    /\ mu' = Unlock
    /\ thr' = [thr EXCEPT !["task"] = "defer"]
    /\ UNCHANGED <<latch, notGuardVars>>

(* The deferred function: c.gwClosed, c.pwClosed = true, true and
   err := c.pw.CloseWithError(c.gw.Close()) *)
GuardDefer ==
    /\ thr["task"] = "defer"
    /\ accesses' = accesses \cup {Access("task", "gwClosed", "write"),
                                  Access("task", "pwClosed", "write")}
    /\ thr' = [thr EXCEPT !["task"] = "lock closeErr"]
    /\ UNCHANGED <<mu, latch, notGuardVars>>

(* c.closeErr = err; c.mu.Unlock(): compressInput is over *)
GuardCloseErr ==
    /\ thr["task"] = "closeErr"
    /\ accesses' = accesses \cup {Access("task", "closeErr", "write")}
    /\ mu' = Unlock
    /\ thr' = [thr EXCEPT !["task"] = "done"]
    /\ UNCHANGED <<latch, notGuardVars>>

(* Close is called *)
GuardClose ==
    /\ thr["close"] = "idle"
    /\ thr' = [thr EXCEPT !["close"] = "lock errs"]
    /\ UNCHANGED <<mu, latch, accesses, notGuardVars>>

(* errs := []error{c.closeErr, c.copyErr}; c.mu.Unlock() *)
GuardErrs ==
    /\ thr["close"] = "errs"
    /\ accesses' = accesses \cup {Access("close", "closeErr", "read"),
                                  Access("close", "copyErr", "read")}
    /\ mu' = Unlock
    /\ thr' = [thr EXCEPT !["close"] = "flags"]
    /\ UNCHANGED <<latch, notGuardVars>>

(* if !c.gwClosed ...; if !c.pwClosed ...; and the rest of Close *)
GuardFlags ==
    /\ thr["close"] = "flags"
    /\ accesses' = accesses \cup {Access("close", "gwClosed", "read"),
                                  Access("close", "pwClosed", "read")}
    /\ thr' = [thr EXCEPT !["close"] = "returned"]
    /\ UNCHANGED <<mu, latch, notGuardVars>>

NextGuard ==
    \/ GuardRead \/ GuardReadReturns \/ GuardCopy \/ GuardLock
    \/ GuardCopyErr \/ GuardDefer \/ GuardCloseErr \/ GuardClose
    \/ GuardErrs \/ GuardFlags

-----------------------------------------------------------------------------
Init ==
    InitStatus /\ InitMux /\ InitRun /\ InitGz /\ InitAdapters
    /\ InitHeaders /\ InitMultipart /\ InitJSON /\ InitCompress /\ InitServe
    /\ InitTrace /\ InitGuard

SpecStatusCode == Init /\ [][NextStatus]_vars
SpecMux == Init /\ [][NextMux]_vars
Spec == Init /\ [][NextRun]_vars
SpecGzip == Init /\ [][NextGz]_vars
SpecAdapters == Init /\ [][NextAdapters]_vars
SpecHeaders == Init /\ [][NextHeaders]_vars
SpecMultipart == Init /\ [][NextMultipart]_vars
SpecJSON == Init /\ [][NextJSON]_vars
SpecCompress == Init /\ [][NextCompress]_vars
SpecServe == Init /\ [][NextServe]_vars
SpecTrace == Init /\ [][NextTrace]_vars
SpecGuard == Init /\ [][NextGuard]_vars
(* The goroutines of runHTTP are scheduled: the one that waits for
   ctx.Done() gets to call Shutdown, and ListenAndServe gets to return *)
SpecServeFair ==
    /\ SpecServe
    /\ WF_vars(ListenAndServe)
    /\ WF_vars(CallShutdown)
    /\ WF_vars(ServeReturns)
(* The goroutine of compressInput and the caller of Close are scheduled,
   and a call of c.pr.Read that can return does; nothing obliges a caller
   to call Read *)
SpecGzipFair ==
    /\ SpecGzip
    /\ WF_vars(TaskCopy) /\ WF_vars(TaskWriteFail) /\ WF_vars(TaskDefer)
    /\ WF_vars(TaskGwClose) /\ WF_vars(TaskPwClose) /\ WF_vars(TaskRecord)
    /\ WF_vars(CloseGw) /\ WF_vars(CloseGwWrite) /\ WF_vars(ClosePw)
    /\ WF_vars(CloseRc) /\ WF_vars(ClosePr)
    /\ \A r \in 1..NReaders : WF_vars(ReadPipe(r))

-----------------------------------------------------------------------------
(* Helpers of the properties *)
SetMax(S) == CHOOSE x \in S : \A y \in S : y <= x
ErrCodes(r) == {r.Errors[i].Code : i \in 1..Len(r.Errors)}
Permuted(errors, p) == [i \in 1..Len(errors) |-> errors[p[i]]]
ReqPath(r) == IF r.URL = "" THEN "/" ELSE r.URL
PathRegistered(path) == \E t \in bound : t[2] = path
PairRegistered(method, path) == \E t \in bound : t[1] = method /\ t[2] = path

(* C1: StatusCode() returns the explicit Code when it is non-zero; otherwise *)
(* the largest Code among the Errors, the same for every permutation of     *)
(* Errors; otherwise (no errors, or no error code above zero) 200.          *)
C1_StatusCodeRule ==
    statusOut # <<>> =>
        LET r == statusResp
            got == statusOut[1]
            above == {c \in ErrCodes(r) : c > 0}
        IN  /\ r.Code # 0 => got = r.Code
            /\ (r.Code = 0 /\ above # {}) => got = SetMax(ErrCodes(r))
            /\ (r.Code = 0 /\ above = {}) => got = 200
            /\ \A p \in Permutations(1..Len(r.Errors)) :
                 StatusCode([r EXCEPT !.Errors = Permuted(r.Errors, p)]) = got

(* C1 witness: no explicit code, the largest error code sits in the middle *)
(* of the list and is followed by a smaller one.                           *)
C1_Witness ==
    /\ statusOut = <<501>>
    /\ statusResp.Code = 0
    /\ Len(statusResp.Errors) = 3
    /\ statusResp.Errors[1].Code = 500
    /\ statusResp.Errors[2].Code = 501
    /\ statusResp.Errors[3].Code = 400

(* C2: a request whose normalised path was never registered under any      *)
(* method invokes no handler and gets exactly the one error                *)
(* {404, "route not found"}.                                               *)
C2_UnregisteredPathNotFound ==
    (muxCall.op = "Handle" /\ ~PathRegistered(ReqPath(muxCall.r))) =>
        /\ muxCall.invoked = <<>>
        /\ muxCall.panic = ""
        /\ muxCall.resp.Errors = <<APIError(404, "route not found")>>
        /\ muxCall.resp.Body = NoBody

(* C2 witness: the path "/a/b" is unknown although the request's method is *)
(* registered for "/a", which is a prefix of it.                           *)
C2_Witness ==
    /\ muxCall.op = "Handle"
    /\ muxCall.r.URL = "/a/b"
    /\ ~PathRegistered(ReqPath(muxCall.r))
    /\ \E t \in bound : t[1] = muxCall.r.Method /\ t[2] = "/a"
    /\ muxCall.resp.Errors = <<APIError(404, "route not found")>>

(* C3: a request whose path is registered, but not under the request's     *)
(* method, invokes no handler and gets exactly the one error               *)
(* {405, "method not allowed"}.                                            *)
C3_WrongMethodNotAllowed ==
    (/\ muxCall.op = "Handle"
     /\ PathRegistered(ReqPath(muxCall.r))
     /\ ~PairRegistered(muxCall.r.Method, ReqPath(muxCall.r))) =>
        /\ muxCall.invoked = <<>>
        /\ muxCall.panic = ""
        /\ muxCall.resp.Errors = <<APIError(405, "method not allowed")>>
        /\ muxCall.resp.Body = NoBody

(* C3 witness: the request's method is registered elsewhere, its path under *)
(* another method.                                                          *)
C3_Witness ==
    /\ muxCall.op = "Handle"
    /\ PathRegistered(ReqPath(muxCall.r))
    /\ ~PairRegistered(muxCall.r.Method, ReqPath(muxCall.r))
    /\ \E t \in bound : t[1] = muxCall.r.Method
    /\ muxCall.resp.Errors = <<APIError(405, "method not allowed")>>

(* C4: a request whose (method, path) pair was registered invokes exactly   *)
(* one handler, the one registered for that pair, and gets that handler's  *)
(* Response unchanged.                                                     *)
C4_RegisteredPairDispatch ==
    (/\ muxCall.op = "Handle"
     /\ PairRegistered(muxCall.r.Method, ReqPath(muxCall.r))) =>
        /\ muxCall.panic = ""
        /\ Len(muxCall.invoked) = 1
        /\ <<muxCall.r.Method, ReqPath(muxCall.r), muxCall.invoked[1]>> \in bound
        /\ muxCall.resp = muxCall.out[1]

(* C4 witness: the path is also registered under another method, and        *)
(* another path under the same method, both with another handler; the      *)
(* request came with the empty URL.                                        *)
C4_Witness ==
    /\ muxCall.op = "Handle"
    /\ muxCall.r.URL = ""
    /\ Len(muxCall.invoked) = 1
    /\ <<muxCall.r.Method, "/", muxCall.invoked[1]>> \in bound
    /\ \E t \in bound : t[2] = "/" /\ t[1] # muxCall.r.Method
                        /\ t[3] # muxCall.invoked[1]
    /\ \E t \in bound : t[2] # "/" /\ t[1] = muxCall.r.Method
                        /\ t[3] # muxCall.invoked[1]
    /\ muxCall.resp = muxCall.out[1]

(* C5: registerRoute panics when the route is empty, the handler is nil or *)
(* the (method, route) pair is already registered, and then changes        *)
(* nothing; so a pair is bound to at most one handler and a binding, once  *)
(* made, is never replaced.                                                *)
C5_RegistrationFailsLoudly ==
    [][ LET c == muxCall' IN
        /\ (/\ c.op = "registerRoute"
            /\ \/ c.route = ""
               \/ c.h = NilHandler
               \/ handlers[routeKey(c.method, c.route)] # NilHandler)
           => /\ c.panic # ""
              /\ UNCHANGED <<routes, meth2Routes, handlers, bound>>
        /\ \A rk \in RouteKeys :
             handlers[rk] # NilHandler => handlers'[rk] = handlers[rk]
        /\ \A t1, t2 \in bound' :
             (t1[1] = t2[1] /\ t1[2] = t2[2]) => t1 = t2
      ]_vars

(* C5 witness: a second registration of a bound pair, with another handler, *)
(* panicked and the first binding is still in place.                        *)
C5_Witness ==
    /\ muxCall.op = "registerRoute"
    /\ muxCall.panic # ""
    /\ muxCall.route # ""
    /\ muxCall.h # NilHandler
    /\ handlers[routeKey(muxCall.method, muxCall.route)] # NilHandler
    /\ handlers[routeKey(muxCall.method, muxCall.route)] # muxCall.h

-----------------------------------------------------------------------------
(* Properties of the transport pipeline *)
Did(step) == \E i \in 1..Len(trace) : trace[i] = step
Rank(step) ==
    CASE step = "decode" -> 1
      [] step = "dispatch" -> 2
      [] step = "materialise" -> 3
      [] step = "encode" -> 4
GenericDecodeError == APIError(500, "unable to process incoming request")

(* C6: for one request the steps run in the order decode, dispatch, file    *)
(* materialisation (only for a File body) and encode, each at most once and *)
(* none before its predecessor is over; a request whose decode failed never *)
(* reaches the handler.                                                     *)
C6_StepOrder ==
    /\ \A i, j \in 1..Len(trace) : i < j => Rank(trace[i]) < Rank(trace[j])
    /\ trace # <<>> => trace[1] = "decode"
    /\ Did("dispatch") => decoded.err = ""
    /\ userCalls > 0 => (Did("dispatch") /\ decoded.err = "")
    /\ Did("materialise") => (Did("dispatch") /\ IsFile(ret.Body))
    /\ Did("encode") =>
         /\ decoded.err = "" => Did("dispatch")
         /\ IsFile(ret.Body) => Did("materialise")

(* C6 witness: a request with a File response went through all four steps *)
C6_Witness ==
    /\ pc = "done"
    /\ trace = <<"decode", "dispatch", "materialise", "encode">>
    /\ userCalls = 1

(* C7 as stated: a panic inside the wrapped handler becomes a Response with *)
(* exactly one internal-error (500) entry with the message "encountered     *)
(* unexpected error", the call returns and the request is answered; without *)
(* a panic the handler's Response is returned unchanged.                    *)
C7_PanicBecomesInternalError ==
    Did("dispatch") =>
        /\ pc # "aborted"
        /\ userOut.panic # "" =>
             ret.Errors = <<APIError(500, "encountered unexpected error")>>
        /\ userOut.panic = "" => ret = userOut.resp

(* C7 amended: the one entry has code 503 (service unavailable), which is   *)
(* also the Response's Code; the rest as stated.                            *)
C7_PanicBecomesServiceUnavailable ==
    Did("dispatch") =>
        /\ pc # "aborted"
        /\ userOut.panic # "" =>
             /\ ret.Errors = <<APIError(503, "encountered unexpected error")>>
             /\ ret.Code = 503
             /\ ret.Body = NoBody
             /\ pc = "done" =>
                  /\ Len(wire) = 1
                  /\ wire[1].envelope.errors = ret.Errors
        /\ userOut.panic = "" => ret = userOut.resp

(* C7 witness: the handler panicked for the request before and for this one; *)
(* both panics were recovered and this request is answered.                 *)
C7_Witness ==
    /\ pc = "done"
    /\ served >= 2
    /\ recovered >= 2
    /\ userOut.panic = "Handle"
    /\ Len(wire) = 1
    /\ wire[1].envelope.errors = <<APIError(503, "encountered unexpected error")>>

(* C8: when toRequest fails the handler is not invoked and the response is  *)
(* exactly the one error {500, "unable to process incoming request"}; the   *)
(* cause of the failure is not in it.                                       *)
C8_DecodeFailureGenericError ==
    (Did("decode") /\ decoded.err # "") =>
        /\ userCalls = 0
        /\ ~Did("dispatch")
        /\ resp.Errors = <<GenericDecodeError>>
        /\ \A i \in 1..Len(resp.Errors) : resp.Errors[i].Message # decoded.err
        /\ pc = "done" =>
             /\ Len(wire) = 1
             /\ wire[1].status = 500
             /\ wire[1].envelope =
                  [body |-> <<>>, code |-> 500, errors |-> <<GenericDecodeError>>]

(* C8 witness: a multipart submission without meta was answered *)
C8_Witness ==
    /\ pc = "done"
    /\ httpReq.ct = "multipart/form-data"
    /\ httpReq.meta = "missing"
    /\ decoded.err # ""
    /\ Len(wire) = 1
    /\ wire[1].envelope.errors = <<GenericDecodeError>>

(* C9: writeResponse always writes an envelope; when marshalling the body   *)
(* fails the envelope carries the response's errors followed by one         *)
(* internal-error entry for the failure.                                    *)
C9_MarshalFailureStillWritesEnvelope ==
    pc = "done" =>
        /\ Len(wire) = 1
        /\ ~MarshalBody(resp.Body).ok =>
             LET errs == wire[1].envelope.errors IN
             /\ Len(errs) = Len(resp.Errors) + 1
             /\ SubSeq(errs, 1, Len(resp.Errors)) = resp.Errors
             /\ errs[Len(errs)].Code = 500

(* C10: when writeFile fails, the errors of the response that is encoded    *)
(* are the handler's errors, in their order, followed by one 500 entry      *)
(* carrying the failure.                                                    *)
C10_FileFailureAppended ==
    (fileOut.called /\ fileOut.err # "") =>
        /\ userOut.panic = ""
        /\ resp.Errors = userOut.resp.Errors \o <<APIError(500, fileOut.err)>>
        /\ pc = "done" =>
             /\ Len(wire) = 1
             /\ wire[1].envelope.errors =
                  userOut.resp.Errors \o <<APIError(500, fileOut.err)>>

(* C10 witness: the copy failed for a handler response with two errors *)
C10_Witness ==
    /\ pc = "done"
    /\ fileOut.err = "failed to write contents to file"
    /\ Len(userOut.resp.Errors) = 2
    /\ Len(wire) = 1
    /\ Len(wire[1].envelope.errors) = 3
    /\ wire[1].envelope.errors[3].Code = 500

(* C11: when the handler returned a File and writeFile succeeded, the       *)
(* stream was read once, the destination file holds exactly the bytes of   *)
(* the stream, and the body became the metadata of the normalised File,    *)
(* with size the number of those bytes and sha256_checksum their digest.   *)
C11_MaterialisedFileMatchesStream ==
    (fileOut.called /\ fileOut.err = "") =>
        LET f == NormalizeFile(ret.Body) IN
        /\ fileOut.passes = 1
        /\ disk[f.Filename] = <<f.Contents>>
        /\ resp.Body = [kind |-> "meta",
                        v |-> [content_type |-> f.ContentType,
                               encoding |-> f.Encoding,
                               filename |-> f.Filename,
                               sha256_checksum |-> sha256Hash(f.Contents),
                               size |-> Len(f.Contents)]]

(* C12: when writeFile has returned, whether with success or because the   *)
(* open, the copy or the close failed, the input stream is closed and no   *)
(* destination file is left open.                                          *)
C12_WriteFileClosesBoth ==
    fileOut.called => (fileOut.rClosed /\ fileOut.fClosed)

(* C13: constructing the gzip File starts no compression goroutine; the    *)
(* first Read starts it; however many Reads are made, and from however     *)
(* many callers at once, it is started once and never twice.               *)
C13_CompressionStartedOnce ==
    /\ reads = 0 => task.n = 0
    /\ reads > 0 => task.n = 1
    /\ task.n = started

(* C13 witness: two callers are inside Read at once, after an earlier Read *)
(* returned, and one goroutine was started.                                *)
C13_Witness ==
    /\ \A r \in 1..NReaders : readers[r] = "pr"
    /\ reads > NReaders
    /\ task.n = 1

(* C14: when Close returns, the gzip writer, the pipe writer, the pipe     *)
(* reader and the source are all closed, and the error it returns holds    *)
(* every error of those closes and every copy or close error the goroutine *)
(* has recorded, whatever the interleaving.                                *)
C14_CloseJoinsAll ==
    closeRet.returned =>
        /\ closeRet.open = {}
        /\ pipe.rclosed
        /\ closeRet.missed = {}

(* Helpers of the adapter properties *)
Decodable(body) == ~body.read /\ body.doc.text = "valid"
OtherAttrs ==
    {"FnID", "FnVersion", "Context", "Headers", "Queries", "URL", "Method",
     "AccessToken", "TraceID"}
HandledBy(adapter) == {i \in 1..Len(handled) : handled[i].adapter = adapter}
DecodesBody(c) ==
    \/ c.adapter \in {"HandleFnOf", "HandlerFnOfOK"}
    \/ c.adapter = "HandleWorkflowOf" /\ c.r.Context.text = "valid"

(* C15: a handler built by HandleFnOf answers a request whose body does not *)
(* decode with exactly one error, of code 400, and does not call the inner  *)
(* function; when the body decodes it calls the inner function once, with   *)
(* the decoded body and every other attribute of the request as it came.    *)
C15_TypedBodyAdapter ==
    \A i \in HandledBy("HandleFnOf") :
        LET c == handled[i] IN
        IF ~Decodable(c.r.Body)
        THEN /\ Len(c.resp.Errors) = 1
             /\ c.resp.Errors[1].Code = 400
             /\ c.calls = <<>>
        ELSE /\ Len(c.calls) = 1
             /\ c.calls[1].r.Body = c.r.Body.doc.v
             /\ \A a \in OtherAttrs : c.calls[1].r[a] = c.r[a]
             /\ c.resp = InnerResp

(* C15 witness: a request with every attribute set and a body that decodes *)
(* went through to the inner function.                                      *)
C15_Witness ==
    /\ Len(handled) = 1
    /\ handled[1].adapter = "HandleFnOf"
    /\ handled[1].r.TraceID = "trace-1"
    /\ handled[1].r.Body.doc.text = "valid"
    /\ Len(handled[1].calls) = 1
    /\ handled[1].calls[1].r.TraceID = "trace-1"

(* C16 as stated: when OK() of the decoded body returns errors, the         *)
(* Response holds exactly those errors in their order, its Code is the      *)
(* highest of their codes, and the inner function is not called; when OK() *)
(* returns none the inner function is called.                               *)
C16_ValidationHighestCode ==
    \A i \in HandledBy("HandlerFnOfOK") :
        LET c == handled[i]
            errs == c.r.Body.doc.v.okErrs
        IN  Decodable(c.r.Body) =>
              IF Len(errs) > 0
              THEN /\ c.resp.Errors = errs
                   /\ c.resp.Code = SetMax({errs[j].Code : j \in 1..Len(errs)})
                   /\ c.calls = <<>>
              ELSE Len(c.calls) = 1

(* C16, amended: as above, but the Code is the highest of their codes only  *)
(* when that is above zero, and 200 otherwise.                              *)
C16_ValidationErrorsReturned ==
    \A i \in HandledBy("HandlerFnOfOK") :
        LET c == handled[i]
            errs == c.r.Body.doc.v.okErrs
            top == SetMax({errs[j].Code : j \in 1..Len(errs)})
        IN  Decodable(c.r.Body) =>
              IF Len(errs) > 0
              THEN /\ c.resp.Errors = errs
                   /\ c.resp.Code = IF top > 0 THEN top ELSE 200
                   /\ c.resp.Body = NoBody
                   /\ c.calls = <<>>
              ELSE /\ Len(c.calls) = 1
                   /\ c.resp = InnerResp

(* C16 witness: OK() returned two errors, the one with the highest code    *)
(* first.                                                                  *)
C16_Witness ==
    /\ Len(handled) = 1
    /\ handled[1].adapter = "HandlerFnOfOK"
    /\ handled[1].r.Body.doc.v.name = "owt"
    /\ Len(handled[1].resp.Errors) = 2
    /\ handled[1].resp.Code = 500
    /\ handled[1].calls = <<>>

(* C17: a handler built by HandleWorkflow or HandleWorkflowOf answers a     *)
(* request whose Context does not decode with exactly one error, of code    *)
(* 400 and about the workflow context, without calling the inner function   *)
(* and, in the typed variant, without touching the body; the inner function *)
(* is called only when the context and, in the typed variant, the body      *)
(* decoded.                                                                 *)
C17_WorkflowContextFirst ==
    \A i \in HandledBy("HandleWorkflow") \cup HandledBy("HandleWorkflowOf") :
        LET c == handled[i]
            typed == c.adapter = "HandleWorkflowOf"
        IN  /\ c.r.Context.text # "valid" =>
                 /\ c.resp.Errors =
                      <<APIError(400, "failed to unmarshal workflow context: "
                                      \o Unmarshal(c.r.Context).err)>>
                 /\ c.calls = <<>>
                 /\ c.body = c.r.Body
            /\ c.calls # <<>> =>
                 /\ Len(c.calls) = 1
                 /\ c.r.Context.text = "valid"
                 /\ c.calls[1].w = c.r.Context.v
                 /\ typed => Decodable(c.r.Body)
            /\ (c.r.Context.text = "valid" /\ (typed => Decodable(c.r.Body))) =>
                 Len(c.calls) = 1

(* C17 witness: the typed variant got a request of which neither the        *)
(* context nor the body decodes.                                            *)
C17_Witness ==
    /\ Len(handled) = 1
    /\ handled[1].adapter = "HandleWorkflowOf"
    /\ handled[1].r.Context = MalformedJSON
    /\ handled[1].r.Body.doc = MalformedJSON
    /\ Len(handled[1].resp.Errors) = 1
    /\ handled[1].calls = <<>>

(* C18 as stated: after a call of an adapter-built handler the caller's     *)
(* Request, its body included, is as it was before, and a second call on    *)
(* the same Request gives the same result.                                  *)
C18_RequestUntouched ==
    /\ \A i \in 1..Len(handled) : handled[i].body = handled[i].r.Body
    /\ (Len(handled) = 2 /\ handled[1].adapter = handled[2].adapter) =>
          /\ handled[2].resp = handled[1].resp
          /\ Len(handled[2].calls) = Len(handled[1].calls)

(* C18, amended: a call changes nothing of the caller's Request but its     *)
(* Body reader, which is read to its end exactly when the adapter decodes   *)
(* the body; a second call on the same Request gives the same result when   *)
(* the first did not read the body.                                         *)
C18_OnlyBodyStreamConsumed ==
    /\ \A i \in 1..Len(handled) :
          LET c == handled[i] IN
          /\ c.body.doc = c.r.Body.doc
          /\ c.body.read = (c.r.Body.read \/ DecodesBody(c))
    /\ Len(handled) = 2 =>
          /\ \A a \in OtherAttrs : handled[2].r[a] = handled[1].r[a]
          /\ handled[2].r.Body = handled[1].body
          /\ (handled[1].adapter = handled[2].adapter
               /\ handled[1].body = handled[1].r.Body) =>
                 /\ handled[2].resp = handled[1].resp
                 /\ handled[2].calls = handled[1].calls
    /\ Len(handled) > 0 =>
          /\ \A a \in OtherAttrs : callerReq[a] = handled[1].r[a]
          /\ callerReq.Body = handled[Len(handled)].body

(* C18 witness: the same Request went to two HandleFnOf handlers; the first *)
(* decoded the body and called the inner function, the second found the    *)
(* reader at its end.                                                      *)
C18_Witness ==
    /\ Len(handled) = 2
    /\ handled[1].adapter = "HandleFnOf"
    /\ handled[2].adapter = "HandleFnOf"
    /\ Len(handled[1].calls) = 1
    /\ handled[2].calls = <<>>
    /\ handled[2].resp.Errors[1].Code = 400

(* C19: for every Response, decoding the envelope that writeResponse wrote *)
(* for it gives back the same errors in the same order, and a code equal to *)
(* the StatusCode() of the Response.                                        *)
C19_EnvelopeRoundTrip ==
    pc = "done" =>
        LET back == DecodeEnvelope(wire) IN
        /\ back.Errors = resp.Errors
        /\ back.Code = StatusCode(resp)

(* Helpers of the header properties *)
LowerKey(k) == [i \in 1..Len(k) |-> ToLower(k[i])]
IsToken(k) == \A i \in 1..Len(k) : IsTokenChar(k[i])
Casings(k) == {l \in LookupKeys : LowerKey(l) = LowerKey(k)}
HoldsBlock(all, part) ==
    \E off \in 0..(Len(all) - Len(part)) :
        SubSeq(all, off + 1, off + Len(part)) = part

(* C20 as stated: for every key of the envelope's header mapping, looking  *)
(* it up on the Request's headers in any casing gives the value submitted  *)
(* for it, and all the values submitted for it in their order.             *)
C20_HeaderLookupAnyCasing ==
    reqHeaders # <<>> =>
        \A k \in Present(envHeaders) : \A l \in Casings(k) :
            /\ Get(reqHeaders[1], l) = envHeaders[k][1]
            /\ Values(reqHeaders[1], l) = envHeaders[k]

(* C20, amended: that holds for a key made of header-name characters that  *)
(* the mapping holds in one casing only; of a key held in several casings  *)
(* the values are all kept under the one canonical key, those of each      *)
(* casing together and in their order; a key with another character is     *)
(* kept, and found, under the casing it was submitted in.                  *)
C20_HeaderLookupCanonical ==
    reqHeaders # <<>> =>
        \A k \in Present(envHeaders) :
            LET same == Present(envHeaders) \cap Casings(k) IN
            IF IsToken(k)
            THEN \A l \in Casings(k) :
                   /\ same = {k} =>
                        /\ Get(reqHeaders[1], l) = envHeaders[k][1]
                        /\ Values(reqHeaders[1], l) = envHeaders[k]
                   /\ HoldsBlock(Values(reqHeaders[1], l), envHeaders[k])
                   /\ Len(Values(reqHeaders[1], l)) = CountValues(envHeaders, same)
            ELSE /\ Values(reqHeaders[1], k) = envHeaders[k]
                 /\ Get(reqHeaders[1], k) = envHeaders[k][1]

(* C20 witness: the envelope holds two values under "a-b" and one under    *)
(* "b"; the Request's headers give them under "A-B" and "B".               *)
C20_Witness ==
    /\ reqHeaders # <<>>
    /\ envHeaders[<<"a", "-", "b">>] = <<"v2", "v1">>
    /\ envHeaders[<<"b">>] = <<"v1">>
    /\ Values(reqHeaders[1], <<"A", "-", "B">>) = <<"v2", "v1">>
    /\ Get(reqHeaders[1], <<"B">>) = "v1"

(* C21: decoding a multipart submission builds a ComplexPayload exactly
   when it holds more than one file part, or at least one file part and a
   value other than meta; one file part and no other value gives a plain
   single-stream body; and a ComplexPayload that was built holds every
   submitted file part in Files under the name it was submitted with.
   Stated of the submissions that decode without an error. *)
C21_ComplexPayloadExactlyWhen ==
    (mpPc \in {"decoded", "done"} /\ mpOut.kind # "err") =>
        LET n == Len(mpForm.parts)
            complex == n > 1 \/ (n >= 1 /\ mpForm.values # {})
        IN /\ (mpOut.kind = "complex") <=> complex
           /\ (n = 1 /\ mpForm.values = {}) => mpOut.kind = "plain"
           /\ mpOut.kind = "complex" =>
                  \A i \in DOMAIN mpForm.parts :
                      mpOut.files[mpForm.parts[i].filename] = i

(* C30: when the processing of a request has finished, every stream that
   was opened for it has been closed, whether the request decoded, the
   decode failed part-way, or the response could not be written. *)
C30_OpenedStreamsClosed ==
    mpPc = "done" => opened \subseteq shut

(* C22: a JSON envelope longer than the ceiling is rejected with a decode
   error; it is never cut to its first bytes up to the ceiling and then
   processed as the whole request. *)
C22_OversizeEnvelopeRejected ==
    (jsonPc = "decoded" /\ Len(jsonBody) > Ceiling) => jsonOut.kind = "err"

(* C23, as stated: CompressGzip sets the encoding to "gzip" when it is
   empty, leaves it unchanged when the token gzip is among its tokens, and
   otherwise appends ", gzip" after the tokens it has; the token gzip is
   never doubled, a second call leaves the encoding of the first, and
   ContentType and Filename stay as they were. *)
GzipTokens(enc) == {i \in DOMAIN enc : enc[i] = "gzip"}
C23_GzipTokenAdded ==
    czTimes >= 1 =>
        LET in == czIn.Encoding
            out == czOnce.Encoding
        IN /\ in = <<>> => out = <<"gzip">>
           /\ GzipTokens(in) # {} => out = in
           /\ (in # <<>> /\ GzipTokens(in) = {}) => out = Append(in, "gzip")
           /\ Cardinality(GzipTokens(czFile.Encoding))
                  <= IF GzipTokens(in) = {} THEN 1
                     ELSE Cardinality(GzipTokens(in))
           /\ czFile.Encoding = out
           /\ czFile.ContentType = czIn.ContentType
           /\ czFile.Filename = czIn.Filename

(* C23, amended: CompressGzip sets the encoding to "gzip" when it is empty,
   leaves it unchanged when the text gzip occurs anywhere in it, as a token
   or inside one such as x-gzip, and otherwise appends ", gzip" after the
   tokens it has; it adds no gzip token to an encoding that has one, a
   second call leaves the encoding of the first, and ContentType and
   Filename stay as they were. *)
HasGzipText(enc) == \E i \in DOMAIN enc : enc[i] \in {"gzip", "x-gzip"}
C23_GzipAddedUnlessContained ==
    czTimes >= 1 =>
        LET in == czIn.Encoding
            out == czOnce.Encoding
        IN /\ in = <<>> => out = <<"gzip">>
           /\ HasGzipText(in) => out = in
           /\ (in # <<>> /\ ~HasGzipText(in)) => out = Append(in, "gzip")
           /\ GzipTokens(in) # {} =>
                  GzipTokens(czFile.Encoding) = GzipTokens(in)
           /\ czFile.Encoding = out
           /\ czFile.ContentType = czIn.ContentType
           /\ czFile.Filename = czIn.Filename
           /\ czFile.Contents.layers = czTimes

(* C23 witness: a File with the encoding deflate went through CompressGzip
   twice and has the encoding deflate, gzip *)
C23_Witness ==
    /\ czTimes = 2
    /\ czIn.Encoding = <<"deflate">>
    /\ czFile.Encoding = <<"deflate", "gzip">>

(* C24: the transport loop is serving or shutting down.  When ctx is
   cancelled while it serves, it comes to shut down; once shutting down it
   stays so, accepts no request, and leaves every request in flight to
   run until it is done; and Run returns in the end. *)
Serving == srv.listener = "open" /\ ~srv.inShutdown
ShuttingDown == srv.inShutdown
C25_OwnTraceID ==
    \A id \in ReqIds :
        reqs[id].at = "handled" => reqs[id].seen = reqs[id].TraceID

(* C26: in every interleaving of Read, the goroutine of compressInput and
   Close, each read and each write of the started flag and of the recorded
   errors closeErr and copyErr is made through the atomic or with the
   mutex held, and the mutex is held by the goroutine that makes it. *)
GuardedFields == {"started", "closeErr", "copyErr"}
C26_StateGuarded ==
    /\ \A a \in accesses : a.field \in GuardedFields => a.guard # "none"
    /\ (thr["task"] \in {"copyErr", "closeErr"}) => mu = "task"
    /\ (thr["close"] = "errs") => mu = "close"

(* C26 witness: both callers of Read went through the flag, compressInput
   recorded a copy error and its close error, and Close read both *)
C26_Witness ==
    /\ \A r \in Callers : \E a \in accesses : a.by = r /\ a.field = "started"
    /\ \E a \in accesses : a.by = "task" /\ a.field = "copyErr"
    /\ \E a \in accesses : a.by = "task" /\ a.field = "closeErr"
    /\ \E a \in accesses : a.by = "close" /\ a.field = "closeErr"

(* C27, as stated: the config is loaded once, at startup, before the
   handler graph is built; when the load or the validation fails, every
   request is answered with exactly one error of the bad-request class
   (400), and neither the user's constructor nor a handler is called. *)
LastLoad == cfgLoads[Len(cfgLoads)]
LoadFailed ==
    Did("dispatch") /\ cfgLoads # <<>> /\ LastLoad.apiErr.Code # 0
C28_CloseReturns ==
    /\ (closer.at # "idle") ~> (closer.at = "returned")
    /\ (closer.at = "returned" /\ task.at # "none") ~> (task.at = "done")

(* C29: after any sequence of registrations, a path is in routes exactly
   when it is in the path set of some method, and a path is in the path
   set of a method exactly when a handler that is not nil is bound to the
   pair of that method and that path; so a call of Handle that passes the
   path check and the method check finds a handler and invokes it. *)
C29_RouterStateConsistent ==
    /\ routes = UNION {meth2Routes[m] : m \in ReqMethods}
    /\ \A k \in RouteKeys :
         (k.route \in meth2Routes[k.method]) <=> (handlers[k] # NilHandler)
    /\ (/\ muxCall.op = "Handle"
        /\ MuxRoute(muxCall.r) \in routes
        /\ MuxRoute(muxCall.r) \in meth2Routes[muxCall.r.Method]) =>
           /\ muxCall.panic = ""
           /\ muxCall.invoked =
                  <<handlers[routeKey(muxCall.r.Method, MuxRoute(muxCall.r))]>>
           /\ muxCall.invoked[1] # NilHandler

(* C29 witness: one path is registered under two methods and another path
   under one of them, and a call of Handle passed both checks and invoked
   the handler of its pair *)
C29_Witness ==
    /\ muxCall.op = "Handle"
    /\ Len(muxCall.invoked) = 1
    /\ \E m1, m2 \in Methods :
         /\ m1 # m2
         /\ "/a" \in meth2Routes[m1] /\ "/a" \in meth2Routes[m2]
         /\ "/" \in meth2Routes[m1]
    /\ routes = {"/", "/a"}

=============================================================================
